---- MODULE Spec2Model ----
(***************************************************************************)
(* Model of the trading bot's event coordination pipeline:                 *)
(*   storage/address_repo.py   AddressRecord, AddressRepository            *)
(*   trading/time_guard.py     TimeGuard                                   *)
(*   scheduler/pipeline.py     TradingPipeline                             *)
(*   wechat_ocr_listener.py    WeChatOCRListener (start/stop/pause/loop)   *)
(*   trading/executor.py       BinanceTrader (execute_trade gate, close)   *)
(*                                                                         *)
(* Time is counted in ticks of half a second, so that the configured      *)
(* durations (1.5 s, 2.0 s, 5.0 s) are whole numbers of ticks.             *)
(***************************************************************************)
EXTENDS Naturals, Integers, Sequences, FiniteSets, TLC

(* ------------------------------ bounds --------------------------------- *)
\* last instant of the clock
MaxTime == 5
\* largest timestamp handed to append by the repository harness
MaxTs == 3
\* TradeConfig.require_time_window_seconds (environment TRADE_TIME_WINDOW_SECONDS,
\* 20 s when unset) as set in the checked configuration: 2 s, in ticks, so that
\* a record can grow stale before the clock ends
MaxAgeTicks == 4
\* PipelineConfig.retry_delay_seconds (environment PIPELINE_RETRY_DELAY, 2.0 s
\* when unset) as set in the checked configuration: 1 s, in ticks, so that a
\* whole attempt sequence fits before the clock ends
RetryDelayTicks == 2
\* observations the driver of the callback makes
MaxFeeds == 3
\* tasks that call execute_trade concurrently in the gate harness
NumCallers == 4
\* decisions of the controller kept in the decision log
MaxLog == 3
\* writes to the ledger the repository threads make between two clears
MaxWrites == 3
\* largest timestamp the repository threads hand to append
MaxStamp == 1

\* calls the interface driver makes on the listener
MaxCalls == 4
\* last instant of the clock while the callback driver is at work
MaxEmitTime == 2
MaxLedgerLines == 2
MaxBackups == 2
\* scans of the capture loop that find an address
MaxCaptures == 4
\* last instant of the clock of the capture loop
MaxCaptureTime == 9
MaxLiveFeeds == 2
\* last instant of the clock while the store is called from several threads
MaxLocksTime == 3
\* last instant at which the clock moves outside a retry delay when the
\* controller is checked for termination
MaxLiveTime == 4


(* --------------------- configuration (config.py) ----------------------- *)
\* PipelineConfig.debounce_seconds = 1.5 s, in ticks
DEBOUNCE_TICKS == 3
\* PipelineConfig.retry_attempts
RETRY_ATTEMPTS == 3
\* WeChatOCRListener._scan_interval = max(1.5, poll_interval_seconds) s, in ticks
SCAN_INTERVAL_TICKS == 3
\* the sleep after WindowNotFoundError, 5.0 s, in ticks
WINDOW_BACKOFF_TICKS == 10
\* the sleep after an OCR failure or an unexpected error, 2.0 s, in ticks
ERROR_BACKOFF_TICKS == 4
\* _should_execute_trade: an address ranked within the RANK_LIMIT most recent
\* entries of the history is not traded again
RANK_LIMIT == 3
\* WeChatOCRListener.stop: thread.join(timeout=2), in ticks
JOIN_TIMEOUT_TICKS == 4

\* _normalize_address, line 456: "0x" and 40 hexadecimal digits
ADDRESS_LENGTH == 42


\* a text is a sequence of characters; the addresses of the model are the
\* one-character texts A, B and C
Addresses == {<<"A">>, <<"B">>, <<"C">>}

(* ----------------------- AddressRecord --------------------------------- *)
\* Optional[AddressRecord]: the value None
NoRecord == [timestamp |-> -1, address |-> <<>>]

\* create_record(address, timestamp)
create_record(address, timestamp) == [timestamp |-> timestamp, address |-> address]

\* AddressRecord.to_line: "<iso timestamp>|<address>", a two-field line
to_line(rec) == <<rec.timestamp, rec.address>>

\* a timestamp part datetime.fromisoformat rejects (ValueError): the timestamp
\* part of a line is an instant, a natural number, when it parses
UnparsableStamp == -2

\* the characters str.strip() removes from both ends of a text, those for
\* which str.isspace() holds, up to U+00FF: the blank, \t, \n, \r, the
\* vertical tab U+000B, the form feed U+000C, the separators U+001C, U+001D,
\* U+001E and U+001F, the next line U+0085 and the no-break space U+00A0.
\* The whitespace above U+00FF (U+1680, U+2000 to U+200A, U+2028, U+2029,
\* U+202F, U+205F, U+3000) is outside the alphabet of the model's texts
Whitespace ==
    {" ", "\t", "\n", "\r", "\f", "", "", "", "", "", "", " "}

\* the unit separator U+001F: whitespace to str.strip(), no line boundary to
\* str.splitlines(), so a line of the ledger file can hold it
UnitSeparator == ""

RECURSIVE lstrip(_)
lstrip(text) ==
    IF text = <<>> THEN <<>>
    ELSE IF Head(text) \in Whitespace THEN lstrip(Tail(text))
    ELSE text

RECURSIVE rstrip(_)
rstrip(text) ==
    IF text = <<>> THEN <<>>
    ELSE IF text[Len(text)] \in Whitespace THEN rstrip(SubSeq(text, 1, Len(text) - 1))
    ELSE text

\* str.strip()
strip(text) == rstrip(lstrip(text))

\* AddressRecord.from_line: the line is a sequence of its "|"-separated parts,
\* the timestamp part an instant when datetime.fromisoformat parses it. Two
\* parts and a parsable timestamp give a record whose address is the second
\* part stripped, anything else None
from_line(line) ==
    IF Len(line) # 2 THEN NoRecord
    ELSE IF line[1] \notin Nat THEN NoRecord
    ELSE [timestamp |-> line[1], address |-> strip(line[2])]

(* ----------------------- AddressRepository ----------------------------- *)
\* dict lookup records_by_address.get(address): index of the entry, 0 if absent
DictIndex(d, address) ==
    IF \E i \in 1..Len(d) : d[i].address = address
    THEN CHOOSE i \in 1..Len(d) : d[i].address = address
    ELSE 0

\* records_by_address[rec.address] = rec : a dict keeps the position of a key
\* it already holds and puts a new key last
DictPut(d, rec) ==
    IF DictIndex(d, rec.address) = 0
    THEN Append(d, rec)
    ELSE [d EXCEPT ![DictIndex(d, rec.address)] = rec]

\* append, lines 52-59: the existing lines folded into records_by_address,
\* malformed lines skipped, the later timestamp kept per address
RECURSIVE LoadDict(_, _)
LoadDict(lines, d) ==
    IF lines = <<>> THEN d
    ELSE LET existing == from_line(Head(lines))
             idx      == DictIndex(d, existing.address)
         IN  IF existing = NoRecord THEN LoadDict(Tail(lines), d)
             ELSE IF idx = 0 \/ existing.timestamp > d[idx].timestamp
                  THEN LoadDict(Tail(lines), DictPut(d, existing))
                  ELSE LoadDict(Tail(lines), d)

\* mutant: the records are written in dict order, not sorted
KeepDictOrder(recs) == recs

\* one step of the stable sort: rec goes after every element whose key is <= its own
RECURSIVE InsertSorted(_, _)
InsertSorted(sorted, rec) ==
    IF sorted = <<>> THEN <<rec>>
    ELSE IF Head(sorted).timestamp <= rec.timestamp
         THEN <<Head(sorted)>> \o InsertSorted(Tail(sorted), rec)
         ELSE <<rec>> \o sorted

\* sorted(values, key=lambda r: r.timestamp): stable, ascending
RECURSIVE SortByTimestamp(_)
SortByTimestamp(recs) ==
    IF recs = <<>> THEN <<>>
    ELSE InsertSorted(SortByTimestamp(SubSeq(recs, 1, Len(recs) - 1)), recs[Len(recs)])

\* mutant: the new record is added without replacing the entry of its address
MergeRecordBlind(d, rec) == Append(d, rec)

\* the merge of append, lines 61-62: the new record is stored under its address
MergeRecord(d, rec) == DictPut(d, rec)

\* "\n".join(item.to_line() ...) written to the file
Serialize(recs) == [i \in 1..Len(recs) |-> to_line(recs[i])]

\* AddressRepository.append: the file after append(rec)
RepoAppend(lines, rec) ==
    Serialize(SortByTimestamp(MergeRecord(LoadDict(lines, <<>>), rec)))

\* a line of which only a part reached the file: the text stops inside the
\* timestamp, before the separator (one part), or after the separator, inside
\* the address (two parts, the address cut short)
CutLines(line) ==
    {<<line[1]>>} \cup
        (IF Len(line) = 2
         THEN {<<line[1], SubSeq(line[2], 1, k)>> : k \in 0..(Len(line[2]) - 1)}
         ELSE {})

\* Path.write_text / Path.write_bytes (append, line 71; backup, line 110): the
\* file is opened for writing, which empties it, and the text is written. The
\* text ends with a line end (lines 69-70), so what a write that raises OSError
\* leaves in the file, a proper prefix of the text, is the first k lines
\* followed or not by a part of the next one, or every line whole with the
\* final line end missing
PartialWrites(lines) ==
    UNION {{SubSeq(lines, 1, k)} \cup
               {Append(SubSeq(lines, 1, k), cut) : cut \in CutLines(lines[k + 1])} :
           k \in 0..(Len(lines) - 1)}
        \cup (IF lines = <<>> THEN {} ELSE {lines})

\* AddressRepository.append raising OSError: the file is as it was (the read of
\* line 51 or the opening of the file failed) or holds a part of the new text,
\* which can be every line of it, the new record included
FailedAppend(lines, rec) == {lines} \cup PartialWrites(RepoAppend(lines, rec))

\* mutant: reading stops at the first line that does not parse
RECURSIVE read_all_until_malformed(_)
read_all_until_malformed(lines) ==
    IF lines = <<>> THEN <<>>
    ELSE IF from_line(Head(lines)) = NoRecord THEN <<>>
         ELSE <<from_line(Head(lines))>> \o read_all_until_malformed(Tail(lines))

\* AddressRepository.read_all: the valid records in file order
RECURSIVE read_all(_)
read_all(lines) ==
    IF lines = <<>> THEN <<>>
    ELSE IF from_line(Head(lines)) = NoRecord THEN read_all(Tail(lines))
         ELSE <<from_line(Head(lines))>> \o read_all(Tail(lines))

\* mutant: the first valid line is returned
RECURSIVE read_first(_)
read_first(lines) ==
    IF lines = <<>> THEN NoRecord
    ELSE IF from_line(Head(lines)) # NoRecord THEN from_line(Head(lines))
         ELSE read_first(Tail(lines))

\* AddressRepository.read_latest: the last valid line, None if there is none
RECURSIVE read_latest(_)
read_latest(lines) ==
    IF lines = <<>> THEN NoRecord
    ELSE IF from_line(lines[Len(lines)]) # NoRecord THEN from_line(lines[Len(lines)])
         ELSE read_latest(SubSeq(lines, 1, Len(lines) - 1))

\* mutant: clear() keeps the last line of the file
RepoClearKeepsLast(lines) ==
    IF lines = <<>> THEN <<>> ELSE <<lines[Len(lines)]>>

\* AddressRepository.clear: the file after clear()
RepoClear(lines) == <<>>

\* the clock runs in half seconds; strftime("%Y%m%d_%H%M%S"), line 103, keeps
\* whole seconds
TicksPerSecond == 2

\* backup(), lines 103 and 106: the snapshot's name, the UTC second of the call
SnapshotName(instant) == instant \div TicksPerSecond

\* the value None returned by backup()
NoSnapshot == -1

\* the I/O steps of backup() that can fail with OSError: creating the backup
\* directory (line 105), reading the ledger (line 109), writing the snapshot
\* (line 110)
BackupFaults == {"none", "mkdir", "read", "write"}

\* backup(), lines 102-115: how the call ends. mkdir is called before the try
\* block, so its OSError leaves backup(); the errors of the two steps inside the
\* try block are logged and None is returned
BackupOutcome(fault, instant) ==
    IF fault = "mkdir" THEN [raised |-> TRUE, target |-> NoSnapshot]
    ELSE IF fault \in {"read", "write"} THEN [raised |-> FALSE, target |-> NoSnapshot]
    ELSE [raised |-> FALSE, target |-> SnapshotName(instant)]

\* the file `name` of the backup directory holds `data`
WithSnapshot(snaps, name, data) ==
    [n \in DOMAIN snaps \cup {name} |-> IF n = name THEN data ELSE snaps[n]]

\* what a write of `data` that raises OSError leaves in a file it has opened:
\* nothing, or a proper prefix of the data (every line of it when only the
\* final line end is missing)
FailedWrites(data) == {<<>>} \cup PartialWrites(data)

\* backup(), line 110: the backup directories the call can leave. write_bytes
\* opens the target, which empties an existing file, and writes the bytes read
\* from the ledger; a write that fails leaves the directory as it was (the
\* target could not be opened) or the target with a part of the data
BackupWrite(snaps, data, fault, instant) ==
    IF fault = "none" THEN {WithSnapshot(snaps, SnapshotName(instant), data)}
    ELSE IF fault = "write"
         THEN {snaps} \cup {WithSnapshot(snaps, SnapshotName(instant), written) :
                               written \in FailedWrites(data)}
         ELSE {snaps}

(* --------------------------- TimeGuard --------------------------------- *)
\* mutant: the age is never compared with the window
is_recent_any_age(rec, reference) == rec # NoRecord

\* mutant: a record exactly max_age old is not recent
is_recent_strict(rec, reference) ==
    IF rec = NoRecord THEN FALSE
    ELSE reference - rec.timestamp < MaxAgeTicks

\* TimeGuard.is_recent(record, reference=now)
is_recent(rec, reference) ==
    IF rec = NoRecord THEN FALSE
    ELSE reference - rec.timestamp <= MaxAgeTicks

(* ----------------------- Debounce Tracker ------------------------------ *)
\* an address without an entry in _recent_executions
NoInstant == -1

\* mutant: an execution exactly one window ago still counts as recent
should_skip_inclusive(recent, rec, reference) ==
    IF recent[rec.address] = NoInstant THEN FALSE
    ELSE reference - recent[rec.address] <= DEBOUNCE_TICKS

\* TradingPipeline._should_skip
should_skip(recent, rec, reference) ==
    IF recent[rec.address] = NoInstant THEN FALSE
    ELSE reference - recent[rec.address] < DEBOUNCE_TICKS

\* mutant: only the entries strictly older than the window are removed
prune_strictly_older(recent, reference) ==
    [a \in DOMAIN recent |->
        IF recent[a] # NoInstant /\ reference - recent[a] > DEBOUNCE_TICKS
        THEN NoInstant ELSE recent[a]]

\* TradingPipeline._prune_recent_executions(reference)
prune_recent_executions(recent, reference) ==
    [a \in DOMAIN recent |->
        IF recent[a] # NoInstant /\ reference - recent[a] >= DEBOUNCE_TICKS
        THEN NoInstant ELSE recent[a]]

\* _process_record lines 86-90: the execution instant stored, then the prune
record_execution(recent, address, reference) ==
    prune_recent_executions([recent EXCEPT ![address] = reference], reference)

(* ------------------------- Dispatch Queue ------------------------------ *)
\* run, lines 55-59: get_nowait until QueueEmpty, the last item dequeued kept
RECURSIVE DrainLoop(_, _)
DrainLoop(rec, q) ==
    IF q = <<>> THEN [record |-> rec, queue |-> q]
    ELSE DrainLoop(Head(q), Tail(q))

\* mutant: the oldest pending item is evaluated and the newer ones are dropped
DrainOldestDroppingRest(q) == [record |-> Head(q), queue |-> <<>>]

\* mutant: the first item is processed and the rest stays queued
DrainFirstOnly(q) == [record |-> Head(q), queue |-> Tail(q)]

\* run, lines 54-59: queue.get() and the drain that follows it
Drain(q) == DrainLoop(Head(q), Tail(q))

(* ----------------------- Capture Source -------------------------------- *)
\* sorted(history, key=timestamp, reverse=True): stable, descending
RECURSIVE InsertSortedDesc(_, _)
InsertSortedDesc(sorted, rec) ==
    IF sorted = <<>> THEN <<rec>>
    ELSE IF Head(sorted).timestamp >= rec.timestamp
         THEN <<Head(sorted)>> \o InsertSortedDesc(Tail(sorted), rec)
         ELSE <<rec>> \o sorted

RECURSIVE SortByTimestampDesc(_)
SortByTimestampDesc(recs) ==
    IF recs = <<>> THEN <<>>
    ELSE InsertSortedDesc(SortByTimestampDesc(SubSeq(recs, 1, Len(recs) - 1)),
                          recs[Len(recs)])

\* mutant: an address ranked third in the history is emitted again
should_execute_trade_from_third(rec, history) ==
    IF history = <<>> THEN TRUE
    ELSE IF \A i \in 1..Len(history) : history[i].address # rec.address THEN TRUE
    ELSE DictIndex(SortByTimestampDesc(history), rec.address) >= RANK_LIMIT

\* WeChatOCRListener._should_execute_trade(record, history)
should_execute_trade(rec, history) ==
    IF history = <<>> THEN TRUE
    ELSE IF \A i \in 1..Len(history) : history[i].address # rec.address THEN TRUE
    ELSE DictIndex(SortByTimestampDesc(history), rec.address) > RANK_LIMIT

(* ----------------------- Trade Action gate ----------------------------- *)
Callers == 1..NumCallers

\* BinanceTrader.__init__, line 41: the lock is free, nobody waits, no task is
\* in execute_trade. A task that waits has a future in the lock's queue:
\* `woken` are the tasks whose future got its result, `cancelled` those whose
\* future was cancelled (task.cancel() while waiting), `mustCancel` those
\* cancelled after their future got its result; a cancelled task stays in the
\* queue until it runs
GateInit == [locked |-> FALSE, waiters |-> <<>>, woken |-> {}, cancelled |-> {},
             mustCancel |-> {}, at |-> [c \in Callers |-> "idle"]]

\* mutant: the holder of the lock is not looked at
LockAvailableIgnoringHolder(locked, waiters, cancelled) ==
    \A i \in 1..Len(waiters) : waiters[i] \in cancelled

\* execute_trade, line 89 (asyncio.Lock.acquire): the lock is taken at once
\* when it is free and every future queued for it is cancelled
LockAvailable(locked, waiters, cancelled) ==
    ~locked /\ \A i \in 1..Len(waiters) : waiters[i] \in cancelled

\* asyncio.Lock._wake_up_first: the first future of the queue gets its result
\* unless it is done (it has its result, or it is cancelled)
WakeUpFirst(waiters, woken, cancelled) ==
    IF waiters = <<>> THEN woken
    ELSE IF Head(waiters) \in woken \cup cancelled THEN woken
    ELSE woken \cup {Head(waiters)}

\* a sequence without the element c
RECURSIVE Without(_, _)
Without(q, c) ==
    IF q = <<>> THEN <<>>
    ELSE IF Head(q) = c THEN Without(Tail(q), c)
    ELSE <<Head(q)>> \o Without(Tail(q), c)

\* the positions of a task inside the body of execute_trade (lines 90-101)
InsideGate == {"started", "navigated", "prepared"}

(* ------------------ WeChatOCRListener._normalize_address --------------- *)
\* a candidate address is a sequence of characters; the empty sequence stands
\* for None and for the empty string alike
\* "0123456789abcdef"
HexChars == {"0", "1", "2", "3", "4", "5", "6", "7", "8", "9",
             "a", "b", "c", "d", "e", "f"}

\* str.lower on one character (the letters the candidates are made of)
Lower(ch) ==
    CASE ch = "A" -> "a" [] ch = "B" -> "b" [] ch = "C" -> "c" [] ch = "D" -> "d"
      [] ch = "E" -> "e" [] ch = "F" -> "f" [] ch = "G" -> "g" [] ch = "X" -> "x"
      [] OTHER -> ch

\* text.replace(" ", "").replace("\n", "").replace("\r", "")
RECURSIVE RemoveBlanks(_)
RemoveBlanks(text) ==
    IF text = <<>> THEN <<>>
    ELSE IF Head(text) \in {" ", "\n", "\r"} THEN RemoveBlanks(Tail(text))
         ELSE <<Head(text)>> \o RemoveBlanks(Tail(text))

\* the address pattern: "0x" followed by lowercase hexadecimal digits,
\* ADDRESS_LENGTH characters in all
WellFormed(address) ==
    /\ Len(address) = ADDRESS_LENGTH
    /\ address[1] = "0"
    /\ address[2] = "x"
    /\ \A i \in 3..ADDRESS_LENGTH : address[i] \in HexChars

\* _normalize_address, lines 448-461 (on ASCII text, which NFKC leaves as it is):
\* the normalized address, or None
normalize_address(candidate) ==
    IF candidate = <<>> THEN <<>>
    ELSE LET stripped == RemoveBlanks(candidate)
             text     == [i \in 1..Len(stripped) |-> Lower(stripped[i])]
         IN  IF Len(text) < 2 \/ SubSeq(text, 1, 2) # <<"0", "x">> THEN <<>>
             ELSE IF Len(text) # ADDRESS_LENGTH THEN <<>>
             ELSE IF \E i \in 3..Len(text) : text[i] \notin HexChars THEN <<>>
             ELSE text

(* ------------------- WeChatOCRListener.pause / resume ------------------ *)
\* pause(): _paused is set unless it is set already
pause(isPaused) == IF ~isPaused THEN TRUE ELSE isPaused

\* mutant: resume() flips the flag
resume_toggling(isPaused) == ~isPaused

\* resume(): _paused is cleared if it is set
resume(isPaused) == IF isPaused THEN FALSE ELSE isPaused

\* the elements of a sequence
Range(s) == {s[i] : i \in 1..Len(s)}

(* ------------- AddressRepository._lock and its callers ----------------- *)
\* the threads that call the repository: the listener's scan thread and two
\* other callers of the same AddressRepository
Threads == {"listener", "writer", "janitor"}

\* a thread outside any repository call
NoCall == [at |-> "idle", rec |-> NoRecord, lines |-> <<>>, history |-> <<>>,
           decided |-> FALSE, shouldTrade |-> FALSE]

\* mutant: the critical section is entered whoever holds the lock
RepoLockIgnored(holder) == TRUE

\* threading.Lock.acquire: the lock can be taken when no thread holds it
RepoLockFree(holder) == holder = "free"

\* mutant: read_latest returns with the lock still held by its caller
ReadLatestKeepsLock(caller) == caller

\* read_latest, lines 94-95: the with block covers the read of the file only;
\* the lock is free again when read_latest returns to its caller
ReadLatestRelease(caller) == "free"

(* ------------------------------ state ---------------------------------- *)
VARIABLES
    now,         \* the clock, datetime.now(timezone.utc), in ticks
    file,        \* AddressRepository._file_path: the ledger's lines
    appended,    \* history: the records the repository harness appended since the last clear
    running,     \* WeChatOCRListener._running
    paused,      \* WeChatOCRListener._paused
    lpc,         \* the listener thread: "none", "top", "scanning", "handling"
                 \* (in _handle_latest_record), "backoff", "dead"
    ltimer,      \* while scanning: when the iteration started; at top: when its sleep ends
    inflight,    \* queue.put coroutines handed to the loop and not yet run
    queue,       \* TradingPipeline._queue
    pc,          \* run(): "init", "waiting" (suspended in queue.get()), "ready"
                 \* (about to take an item without suspending), "reading"
                 \* (a recent record in hand, in read_latest), "pausing"
                 \* (a record passed the gates), "executing", "sleeping",
                 \* "finishing" (entering the finally), "joining" (in stop()),
                 \* "closing" (in close()), "stopped"
    record,      \* the record _process_record is working on
    attempt,     \* _execute_with_retry's loop variable
    sleepStart,  \* when the inter-retry asyncio.sleep began
    recent,      \* TradingPipeline._recent_executions
    loop,        \* TradingPipeline._loop: "none" before run() set it, then the
                 \* loop that runs run(), "running" or "closed"
    wake,        \* history: what the last wake of the consumer saw and decided
    seq,         \* history: the current or last attempt sequence (for which record,
                 \* how many sequences so far, execute_trade calls and delays in
                 \* this one, when its first and latest call were made, how it ended)
    calls,       \* history: calls made by the pipeline to pause/resume/stop/close,
                 \* when stop() was called and when run() ended
    escaped,     \* the exception on its way out of run(), "none" if there is none
    decisions,   \* history: the last MaxLog decisions of _process_record
    fed,         \* history: the number of observations the driver made
    gate,        \* BinanceTrader._lock and the tasks calling execute_trade
    lastDone,    \* history: per address, when its last attempt sequence ended
    repoLock,    \* AddressRepository._lock: the thread holding it, "free" if none
    threads,     \* the threads calling the repository: where each is in its call
    linearized,  \* history: the records written since the last clear, in write order
    trace,       \* history: the calls a driver made on an interface, in order
    call,        \* the function driver: the function called and its arguments
    result,      \* the function driver: whether it returned, and what
    snapshots    \* CONFIG.storage.backup_dir: the snapshot files, by name

storeVars == <<repoLock, threads, linearized>>
harnessVars == <<trace, call, result, snapshots>>

vars == <<now, file, appended, running, paused, lpc, ltimer, inflight, queue, pc,
          record, attempt, sleepStart, recent, loop, wake, seq, calls, escaped,
          decisions, fed, gate, storeVars, harnessVars, lastDone>>

listenerVars == <<running, paused, lpc, ltimer>>
controllerVars == <<pc, record, attempt, sleepStart, recent, loop>>
historyVars == <<wake, seq, calls, escaped, decisions, lastDone>>

NoWake == [pending |-> <<>>, chosen |-> NoRecord, rest |-> <<>>, latest |-> NoRecord,
           lastDone |-> NoInstant, checked |-> 0, at |-> 0, gate |-> "none"]
NoSeq == [address |-> <<>>, timestamp |-> 0, started |-> 0, calls |-> 0,
          delays |-> 0, first |-> 0, last |-> 0, outcome |-> "none"]

\* the state after TradingPipeline.__init__, the ledger file and the driver's
\* inputs apart
InitRest ==
    /\ now = 0
    /\ appended = {}
    /\ running = FALSE
    /\ paused = FALSE
    /\ lpc = "none"
    /\ ltimer = 0
    /\ inflight = <<>>
    /\ queue = <<>>
    /\ pc = "init"
    /\ record = NoRecord
    /\ attempt = 0
    /\ sleepStart = 0
    /\ recent = [a \in Addresses |-> NoInstant]
    /\ loop = "none"
    /\ wake = NoWake
    /\ seq = NoSeq
    /\ calls = [pause |-> 0, resume |-> 0, stop |-> 0, close |-> 0,
                stopAt |-> NoInstant, endAt |-> NoInstant]
    /\ escaped = "none"
    /\ decisions = <<>>
    /\ fed = 0
    /\ gate = GateInit
    /\ lastDone = [a \in Addresses |-> NoInstant]
    /\ repoLock = "free"
    /\ threads = [t \in Threads |-> NoCall]
    /\ linearized = <<>>
    /\ trace = <<>>
    /\ snapshots = <<>>

\* no call handed to the function driver, no value returned
NoInput == [op |-> "none"]
NoResult == [done |-> FALSE, value |-> FALSE]

\* the state after TradingPipeline.__init__ (and AddressRepository._ensure_file
\* on a fresh data directory)
Init ==
    /\ InitRest
    /\ file = <<>>
    /\ call = NoInput
    /\ result = NoResult

\* run() is running synchronous code that waits for nothing: from a wake-up to
\* the recency test, from the gates to the first attempt, from the end of the
\* loop to stop()
Synchronous == pc \in {"ready", "pausing", "finishing"}

\* the passage of time, one tick of the clock; the synchronous code of run()
\* takes less than a tick, but for the call of read_latest (pc = "reading"),
\* which waits for AddressRepository._lock as long as another thread holds it
Tick ==
    /\ now < MaxTime
    /\ ~Synchronous
    /\ now' = now + 1
    /\ UNCHANGED <<file, appended, listenerVars, inflight, queue, controllerVars,
                   historyVars, fed, gate, storeVars, harnessVars>>

(* ----------------------- Capture Source thread ------------------------- *)
\* TradingPipeline._handle_new_record: the put is handed to the event loop; it
\* is dropped when there is no loop to take it (not set yet, or closed: the
\* RuntimeError of run_coroutine_threadsafe is caught by the caller)
handle_new_record(pending, rec, loopOpen) ==
    IF loopOpen THEN Append(pending, rec) ELSE pending

\* the loop run() captured (line 44) exists and is not closed
LoopOpen == loop = "running"

\* _loop, lines 104-107: the sleep for what remains of the scan interval
NextScanAt(started) ==
    IF started + SCAN_INTERVAL_TICKS > now THEN started + SCAN_INTERVAL_TICKS ELSE now

\* _loop, lines 81-87: the top of an iteration, once the previous sleep is over.
\* A cleared _running ends the thread; a set _paused sleeps 0.2 s and comes back
\* here (no change of state); otherwise a scan begins.
ListenerBegin ==
    /\ lpc \in {"top", "backoff"}
    /\ now >= ltimer
    /\ IF ~running
       THEN /\ lpc' = "dead"
            /\ UNCHANGED ltimer
       ELSE /\ ~paused
            /\ lpc' = "scanning"
            /\ ltimer' = now
    /\ UNCHANGED <<now, file, appended, running, paused, inflight, queue,
                   controllerVars, historyVars, fed, gate, storeVars, harnessVars>>

\* _loop, lines 87-90 with _write_temp_addresses, and _handle_latest_record,
\* lines 374-375: the scan found `address`; the record is stamped, the history
\* read (the store's lock taken and released) and the decision to trade made
ListenerCapture(address) ==
    /\ lpc = "scanning"
    /\ lpc' = "handling"
    /\ LET rec     == create_record(address, now)
           history == read_all(file)
       IN  threads' = [threads EXCEPT !["listener"] =
                          [at |-> "calling", rec |-> rec, lines |-> <<>>,
                           history |-> history, decided |-> TRUE,
                           shouldTrade |-> should_execute_trade(rec, history)]]
    /\ UNCHANGED <<now, file, appended, running, paused, ltimer, inflight, queue,
                   controllerVars, historyVars, fed, gate, repoLock, linearized,
                   harnessVars>>

\* mutant: the captured record is not appended to the store
ListenerAppendSkipped ==
    /\ threads["listener"].at = "calling"
    /\ threads' = [threads EXCEPT !["listener"].at = "appended"]
    /\ UNCHANGED <<now, file, appended, listenerVars, inflight, queue,
                   controllerVars, historyVars, fed, gate, repoLock, linearized,
                   harnessVars>>

\* _handle_latest_record, line 376: the record is appended (the store's lock
\* taken for the whole of append, and released)
ListenerAppend ==
    /\ threads["listener"].at = "calling"
    /\ file' = RepoAppend(file, threads["listener"].rec)
    /\ threads' = [threads EXCEPT !["listener"].at = "appended"]
    /\ UNCHANGED <<now, appended, listenerVars, inflight, queue, controllerVars,
                   historyVars, fed, gate, repoLock, linearized, harnessVars>>

\* _handle_latest_record, lines 377-393: the callback is called if the decision
\* was to trade; _loop, lines 103-107: the iteration of the thread sleeps for
\* what remains of the scan interval
ListenerCallback ==
    /\ threads["listener"].at = "appended"
    /\ inflight' = IF threads["listener"].shouldTrade
                   THEN handle_new_record(inflight, threads["listener"].rec, LoopOpen)
                   ELSE inflight
    /\ threads' = [threads EXCEPT !["listener"] = NoCall]
    /\ lpc' = IF lpc = "handling" THEN "top" ELSE lpc
    /\ ltimer' = IF lpc = "handling" THEN NextScanAt(ltimer) ELSE ltimer
    /\ UNCHANGED <<now, file, appended, running, paused, queue, controllerVars,
                   historyVars, fed, gate, repoLock, linearized, harnessVars>>

\* _loop: the scan found no valid address (_write_temp_addresses returned None)
ListenerNothing ==
    /\ lpc = "scanning"
    /\ lpc' = "top"
    /\ ltimer' = NextScanAt(ltimer)
    /\ UNCHANGED <<now, file, appended, running, paused, inflight, queue,
                   controllerVars, historyVars, fed, gate, storeVars, harnessVars>>

\* _loop, lines 87-93: an exception can be raised by the scan (the capture, the
\* OCR, read_all of _handle_latest_record, line 374) or by repo.append (line
\* 376, an OSError); past the append nothing raises (the callback's exceptions
\* are caught at lines 384-387)
CanRaise(windowNotFound) ==
    \/ lpc = "scanning"
    \/ lpc = "handling" /\ threads["listener"].at = "calling" /\ ~windowNotFound

\* _loop, lines 94-102: the iteration raised; the window was not found (5 s
\* sleep) or the OCR, the store or anything else failed (2 s sleep); the record
\* in hand is given up, the thread sleeps and comes back to the top of the loop.
\* When it is append that raised, the ledger is as the failed write left it
ListenerFault(windowNotFound) ==
    /\ CanRaise(windowNotFound)
    /\ file' \in IF lpc = "handling"
                 THEN FailedAppend(file, threads["listener"].rec)
                 ELSE {file}
    /\ lpc' = "backoff"
    /\ ltimer' = IF windowNotFound THEN now + WINDOW_BACKOFF_TICKS
                 ELSE now + ERROR_BACKOFF_TICKS
    /\ threads' = [threads EXCEPT !["listener"] = NoCall]
    /\ UNCHANGED <<now, appended, running, paused, inflight, queue,
                   controllerVars, historyVars, fed, gate, repoLock, linearized,
                   harnessVars>>

(* ------------------------ Pipeline Controller -------------------------- *)
\* mutant: only the address is compared with the store's latest record
NotLatestByAddress(latest, rec) ==
    \/ latest = NoRecord
    \/ latest.address # rec.address

\* _process_record, line 73: the dequeued record is not the store's latest
NotLatest(latest, rec) ==
    \/ latest = NoRecord
    \/ latest.address # rec.address
    \/ latest.timestamp # rec.timestamp

\* mutant: the debounce gate is consulted before the latest-record gate
EvaluateDebounceFirst(rec, latest, recentMap, reference) ==
    IF should_skip(recentMap, rec, reference) THEN "debounced"
    ELSE IF NotLatest(latest, rec) THEN "notlatest"
    ELSE "passed"

\* _process_record, lines 73-79: the gates that follow read_latest, in order;
\* _should_skip reads the clock (line 96) after read_latest has returned
Evaluate(rec, latest, recentMap, reference) ==
    IF NotLatest(latest, rec) THEN "notlatest"
    ELSE IF should_skip(recentMap, rec, reference) THEN "debounced"
    ELSE "passed"

\* mutant: a debounced event refreshes the stored execution instant
TrackerRefreshedOnSkip(recentMap, rec, verdict, reference) ==
    IF verdict = "debounced" THEN [recentMap EXCEPT ![rec.address] = reference]
    ELSE recentMap

\* _process_record, lines 68-79: each gate that rejects the record returns at
\* once, and a record that passes goes on to pause(); _recent_executions is
\* not written before the execution is over (line 89)
TrackerAfterGates(recentMap, rec, verdict, reference) == recentMap

\* the decision log keeps the last MaxLog entries
Logged(log, entry) ==
    IF Len(log) < MaxLog THEN Append(log, entry) ELSE Append(Tail(log), entry)

\* run, lines 44-51: the loop is captured, start() succeeded, the listener
\* thread runs and run() waits on its queue
Start ==
    /\ pc = "init"
    /\ pc' = "waiting"
    /\ loop' = "running"
    /\ running' = TRUE
    /\ lpc' = "top"
    /\ UNCHANGED <<now, file, appended, paused, ltimer, inflight, queue, record,
                   attempt, sleepStart, recent, historyVars, fed, gate, storeVars, harnessVars>>

\* mutant: a failed start() returns from run() without closing the trader
StartFailsWithoutClose ==
    /\ pc = "init"
    /\ pc' = "stopped"
    /\ loop' = "running"
    /\ calls' = [calls EXCEPT !.endAt = now]
    /\ UNCHANGED <<now, file, appended, listenerVars, inflight, queue, record,
                   attempt, sleepStart, recent, wake, seq, escaped, decisions,
                   fed, gate, storeVars, harnessVars, lastDone>>

\* run, lines 44-50: the loop is captured, start() raised (ensure_ready
\* failed); close() is called and awaited, and run() returns after it
StartFails ==
    /\ pc = "init"
    /\ pc' = "closing"
    /\ loop' = "running"
    /\ calls' = [calls EXCEPT !.close = @ + 1]
    /\ UNCHANGED <<now, file, appended, listenerVars, inflight, queue, record,
                   attempt, sleepStart, recent, wake, seq, escaped, decisions,
                   fed, gate, storeVars, harnessVars, lastDone>>

\* run() is suspended at an await, or has returned: the loop runs its other
\* callbacks
LoopFree == pc \in {"waiting", "executing", "sleeping", "closing", "stopped"}

\* mutant: the loop runs scheduled puts only while run() waits on its queue
LoopPutWhenWaiting ==
    /\ LoopOpen
    /\ pc = "waiting"
    /\ inflight # <<>>
    /\ queue' = Append(queue, Head(inflight))
    /\ inflight' = Tail(inflight)
    /\ UNCHANGED <<now, file, appended, listenerVars, controllerVars, historyVars,
                   fed, gate, storeVars, harnessVars>>

\* the event loop runs a queue.put scheduled by _handle_new_record, line 41
LoopPut ==
    /\ LoopOpen
    /\ LoopFree
    /\ inflight # <<>>
    /\ queue' = Append(queue, Head(inflight))
    /\ inflight' = Tail(inflight)
    /\ UNCHANGED <<now, file, appended, listenerVars, controllerVars, historyVars, fed, gate, storeVars, harnessVars>>

\* main.py, line 15: asyncio.run closes the loop once run() has ended; the
\* callbacks it had not run are dropped
LoopClose ==
    /\ pc = "stopped"
    /\ loop = "running"
    /\ loop' = "closed"
    /\ inflight' = <<>>
    /\ UNCHANGED <<now, file, appended, listenerVars, queue, pc, record, attempt,
                   sleepStart, recent, historyVars, fed, gate, storeVars, harnessVars>>

\* run, lines 54-60 and _process_record, lines 68-70: the consumer wakes, drains
\* the queue and tests the survivor's recency against the clock; a stale record
\* is discarded, a recent one goes on to read_latest
Wake ==
    /\ pc \in {"waiting", "ready"}
    /\ queue # <<>>
    /\ LET d     == Drain(queue)
           rec   == d.record
           fresh == is_recent(rec, now)
       IN  /\ queue' = d.queue
           /\ record' = rec
           /\ wake' = [pending |-> queue, chosen |-> rec, rest |-> d.queue,
                       latest |-> NoRecord, lastDone |-> lastDone[rec.address],
                       checked |-> now, at |-> now,
                       gate |-> IF fresh THEN "reading" ELSE "stale"]
           /\ decisions' = IF fresh THEN decisions
                           ELSE Logged(decisions, [address |-> rec.address, at |-> now,
                                                   gate |-> "stale"])
           /\ pc' = IF fresh THEN "reading" ELSE "waiting"
    /\ UNCHANGED <<now, file, appended, listenerVars, inflight, attempt, sleepStart,
                   recent, loop, seq, calls, escaped, fed, gate, storeVars,
                   harnessVars, lastDone>>

\* _process_record, lines 72-79: read_latest has the store's lock and returns;
\* the record is compared with the latest record, then _should_skip reads the
\* clock again; a record that passes goes on to pause()
ReadLatestBody ==
    /\ pc = "reading"
    /\ LET latest  == read_latest(file)
           verdict == Evaluate(record, latest, recent, now)
       IN  /\ wake' = [wake EXCEPT !.latest = latest,
                                   !.lastDone = lastDone[record.address],
                                   !.at = now, !.gate = verdict]
           /\ decisions' = Logged(decisions,
                                  [address |-> record.address, at |-> now, gate |-> verdict])
           /\ pc' = IF verdict = "passed" THEN "pausing" ELSE "waiting"
           /\ recent' = TrackerAfterGates(recent, record, verdict, now)
    /\ UNCHANGED <<now, file, appended, listenerVars, inflight, queue, record, attempt,
                   sleepStart, loop, seq, calls, escaped, fed, gate, harnessVars,
                   lastDone>>

\* read_latest returns (the lock of the store is not a variable of this step:
\* the time it waited for it has passed in the ticks before)
ReadLatest ==
    /\ ReadLatestBody
    /\ UNCHANGED storeVars

\* read_latest while other threads call the repository: it waits for
\* AddressRepository._lock (line 94) and returns with it released
ReadLatestLocked ==
    /\ RepoLockFree(repoLock)
    /\ repoLock' = ReadLatestRelease("controller")
    /\ ReadLatestBody
    /\ UNCHANGED <<threads, linearized>>

\* _process_record, lines 81-83 and _execute_with_retry, lines 115-117: the
\* listener is paused and the first execute_trade call made
StartExecution ==
    /\ pc = "pausing"
    /\ paused' = pause(paused)
    /\ calls' = [calls EXCEPT !.pause = @ + 1]
    /\ attempt' = 1
    /\ seq' = [address |-> record.address, timestamp |-> record.timestamp,
               started |-> seq.started + 1, calls |-> 1,
               delays |-> 0, first |-> now, last |-> now,
               outcome |-> "running"]
    /\ pc' = "executing"
    /\ UNCHANGED <<now, file, appended, running, lpc, ltimer, inflight, queue,
                   record, sleepStart, recent, loop, wake, escaped, decisions,
                   fed, gate, storeVars, harnessVars, lastDone>>

\* run, line 55: queue.get() suspends run() on an empty queue and returns at
\* once on a queue that holds an item
BackOnQueue == IF queue = <<>> THEN "waiting" ELSE "ready"

\* mutant: the execution instant is stored after a successful sequence only
FinishSequenceRecordOnSuccess(outcome) ==
    /\ paused' = resume(paused)
    /\ calls' = [calls EXCEPT !.resume = @ + 1]
    /\ recent' = IF outcome = "success"
                 THEN record_execution(recent, record.address, now)
                 ELSE recent
    /\ lastDone' = [lastDone EXCEPT ![record.address] = now]
    /\ seq' = [seq EXCEPT !.outcome = outcome]
    /\ pc' = BackOnQueue

\* mutant: resume() is called on the success path only (no finally)
FinishSequenceResumeOnSuccess(outcome) ==
    /\ paused' = IF outcome = "success" THEN resume(paused) ELSE paused
    /\ calls' = [calls EXCEPT !.resume = IF outcome = "success" THEN @ + 1 ELSE @]
    /\ recent' = record_execution(recent, record.address, now)
    /\ lastDone' = [lastDone EXCEPT ![record.address] = now]
    /\ seq' = [seq EXCEPT !.outcome = outcome]
    /\ pc' = BackOnQueue

\* _process_record, lines 84-90: after the attempt sequence the listener is
\* resumed, the execution instant is stored and the tracker pruned; run() is
\* back at queue.get()
FinishSequence(outcome) ==
    /\ paused' = resume(paused)
    /\ calls' = [calls EXCEPT !.resume = @ + 1]
    /\ recent' = record_execution(recent, record.address, now)
    /\ lastDone' = [lastDone EXCEPT ![record.address] = now]
    /\ seq' = [seq EXCEPT !.outcome = outcome]
    /\ pc' = BackOnQueue

\* mutant: a failed attempt is always retried
HasMoreAttemptsWhileFailing(k) == TRUE

\* mutant: the loop of _execute_with_retry stops one attempt short
HasMoreAttemptsOneShort(k) == k < RETRY_ATTEMPTS - 1

\* _execute_with_retry, lines 115 and 128: another attempt follows attempt k
HasMoreAttempts(k) == k < RETRY_ATTEMPTS

\* _execute_with_retry, lines 117-119: the attempt in flight returns
TradeSucceeds ==
    /\ pc = "executing"
    /\ FinishSequence("success")
    /\ UNCHANGED <<now, file, appended, running, lpc, ltimer, inflight, queue,
                   record, attempt, sleepStart, loop, wake, escaped, decisions, fed, gate, storeVars, harnessVars>>

\* mutant: the delay is taken after every failed attempt, the last included
TradeFailsAlwaysSleeps ==
    /\ pc = "executing"
    /\ pc' = "sleeping"
    /\ sleepStart' = now
    /\ seq' = [seq EXCEPT !.delays = @ + 1]
    /\ UNCHANGED <<paused, calls, recent, lastDone>>
    /\ UNCHANGED <<now, file, appended, running, lpc, ltimer, inflight, queue,
                   record, attempt, loop, wake, escaped, decisions, fed, gate, storeVars, harnessVars>>

\* _execute_with_retry, lines 120-130: the attempt in flight raises; a delay
\* follows unless it was the last attempt
TradeFails ==
    /\ pc = "executing"
    /\ IF HasMoreAttempts(attempt)
       THEN /\ pc' = "sleeping"
            /\ sleepStart' = now
            /\ seq' = [seq EXCEPT !.delays = @ + 1]
            /\ UNCHANGED <<paused, calls, recent, lastDone>>
       ELSE /\ FinishSequence("exhausted")
            /\ UNCHANGED sleepStart
    /\ UNCHANGED <<now, file, appended, running, lpc, ltimer, inflight, queue,
                   record, attempt, loop, wake, escaped, decisions, fed, gate, storeVars, harnessVars>>

\* _execute_with_retry, lines 115-117: the delay is over, the next attempt starts
SleepDone ==
    /\ pc = "sleeping"
    /\ now >= sleepStart + RetryDelayTicks
    /\ attempt' = attempt + 1
    /\ seq' = [seq EXCEPT !.calls = @ + 1, !.last = now]
    /\ pc' = "executing"
    /\ UNCHANGED <<now, file, appended, listenerVars, inflight, queue, record,
                   sleepStart, recent, loop, wake, calls, escaped, decisions, fed, gate, storeVars, harnessVars, lastDone>>

\* run, lines 61-63: the task is cancelled at one of its suspension points; in
\* an attempt or a delay the finally of _process_record (line 85) resumes the
\* listener; run() catches the CancelledError and enters its finally
Cancel ==
    /\ pc \in {"waiting", "executing", "sleeping"}
    /\ paused' = IF pc = "waiting" THEN paused ELSE resume(paused)
    /\ calls' = [calls EXCEPT !.resume = IF pc = "waiting" THEN @ ELSE @ + 1]
    /\ seq' = IF pc = "waiting" THEN seq ELSE [seq EXCEPT !.outcome = "cancelled"]
    /\ pc' = "finishing"
    /\ UNCHANGED <<now, file, appended, running, lpc, ltimer, inflight, queue,
                   record, attempt, sleepStart, recent, loop, wake, escaped,
                   decisions, fed, gate, storeVars, harnessVars, lastDone>>

\* _process_record, line 72: read_latest raises (the ledger cannot be read); the
\* exception leaves _process_record and the loop of run(), which enters its
\* finally
ReadFails ==
    /\ pc = "reading"
    /\ wake' = [wake EXCEPT !.at = now, !.gate = "error"]
    /\ escaped' = "process_error"
    /\ pc' = "finishing"
    /\ UNCHANGED <<now, file, appended, listenerVars, inflight, queue, record, attempt,
                   sleepStart, recent, loop, seq, calls, decisions, fed, gate,
                   storeVars, harnessVars, lastDone>>

\* run, line 64 and WeChatOCRListener.stop, lines 74-76: stop() is called; it
\* clears _running and joins the listener thread, for JOIN_TIMEOUT_TICKS at most
StopCall ==
    /\ pc = "finishing"
    /\ running' = FALSE
    /\ calls' = [calls EXCEPT !.stop = @ + 1, !.stopAt = now]
    /\ pc' = "joining"
    /\ UNCHANGED <<now, file, appended, paused, lpc, ltimer, inflight, queue,
                   record, attempt, sleepStart, recent, loop, wake, seq, escaped,
                   decisions, fed, gate, storeVars, harnessVars, lastDone>>

\* stop, lines 76-77 and run, line 65: the join returns, the thread is dead (or
\* was never started) or the timeout is over; close() is called and awaited
StopReturns ==
    /\ pc = "joining"
    /\ lpc \in {"none", "dead"} \/ now >= calls.stopAt + JOIN_TIMEOUT_TICKS
    /\ calls' = [calls EXCEPT !.close = @ + 1]
    /\ pc' = "closing"
    /\ UNCHANGED <<now, file, appended, listenerVars, inflight, queue, record,
                   attempt, sleepStart, recent, loop, wake, seq, escaped,
                   decisions, fed, gate, storeVars, harnessVars, lastDone>>

\* run, line 64: stop() raises; the exception leaves the finally and run(),
\* close() is not called
StopRaises ==
    /\ pc = "joining"
    /\ escaped' = "stop_error"
    /\ calls' = [calls EXCEPT !.endAt = now]
    /\ pc' = "stopped"
    /\ UNCHANGED <<now, file, appended, listenerVars, inflight, queue, record,
                   attempt, sleepStart, recent, loop, wake, seq, decisions, fed,
                   gate, storeVars, harnessVars, lastDone>>

\* run, lines 50 and 65: close() returns or raises, and run() ends, with the
\* exception of close() or else with the one that it was left with
CloseDone(closeRaises) ==
    /\ pc = "closing"
    /\ escaped' = IF closeRaises THEN "close_error" ELSE escaped
    /\ calls' = [calls EXCEPT !.endAt = now]
    /\ pc' = "stopped"
    /\ UNCHANGED <<now, file, appended, listenerVars, inflight, queue, record,
                   attempt, sleepStart, recent, loop, wake, seq, decisions, fed,
                   gate, storeVars, harnessVars, lastDone>>

Next ==
    \/ Tick
    \/ Start
    \/ StartFails
    \/ ListenerBegin
    \/ \E a \in Addresses : ListenerCapture(a)
    \/ ListenerAppend
    \/ ListenerCallback
    \/ ListenerNothing
    \/ \E w \in BOOLEAN : ListenerFault(w)
    \/ LoopPut
    \/ LoopClose
    \/ Wake
    \/ ReadLatest
    \/ StartExecution
    \/ TradeSucceeds
    \/ TradeFails
    \/ SleepDone
    \/ Cancel
    \/ ReadFails
    \/ StopCall
    \/ StopReturns
    \/ StopRaises
    \/ \E c \in BOOLEAN : CloseDone(c)

Spec == Init /\ [][Next]_vars

(* ------ the controller fed by a driver (a stub Capture Source) -------- *)
\* run() is waiting on its queue, its loop runs; the listener is a stub without
\* a thread, a driver appends records and calls the callback in its place
InitFeed ==
    /\ now = 0
    /\ file = <<>>
    /\ appended = {}
    /\ running = TRUE
    /\ paused = FALSE
    /\ lpc = "none"
    /\ ltimer = 0
    /\ inflight = <<>>
    /\ queue = <<>>
    /\ pc = "waiting"
    /\ record = NoRecord
    /\ attempt = 0
    /\ sleepStart = 0
    /\ recent = [a \in Addresses |-> NoInstant]
    /\ loop = "running"
    /\ wake = NoWake
    /\ seq = NoSeq
    /\ calls = [pause |-> 0, resume |-> 0, stop |-> 0, close |-> 0,
                stopAt |-> NoInstant, endAt |-> NoInstant]
    /\ escaped = "none"
    /\ decisions = <<>>
    /\ fed = 0
    /\ gate = GateInit
    /\ lastDone = [a \in Addresses |-> NoInstant]
    /\ repoLock = "free"
    /\ threads = [t \in Threads |-> NoCall]
    /\ linearized = <<>>
    /\ trace = <<>>
    /\ snapshots = <<>>
    /\ call = NoInput
    /\ result = NoResult

\* the addresses the driver observes
FedAddresses == {<<"A">>, <<"B">>}

\* the driver is a thread that uses the store and the controller as the Capture
\* Source does, without the Capture Source's own decision: it appends a record
\* of `address` stamped now (AddressRepository.append) and is about to call
\* TradingPipeline._handle_new_record with it, whatever run() is doing; each
\* record is a new one
Emit(address) ==
    /\ fed < MaxFeeds
    /\ threads["writer"].at = "idle"
    /\ create_record(address, now) \notin Range(trace)
    /\ fed' = fed + 1
    /\ file' = RepoAppend(file, create_record(address, now))
    /\ threads' = [threads EXCEPT !["writer"] =
                      [NoCall EXCEPT !.at = "appended",
                                     !.rec = create_record(address, now)]]
    /\ trace' = Append(trace, create_record(address, now))
    /\ UNCHANGED <<now, appended, listenerVars, inflight, queue, controllerVars,
                   historyVars, gate, repoLock, linearized, call, result, snapshots>>

\* the driver calls TradingPipeline._handle_new_record with the record it
\* appended
EmitCallback ==
    /\ threads["writer"].at = "appended"
    /\ inflight' = handle_new_record(inflight, threads["writer"].rec, LoopOpen)
    /\ threads' = [threads EXCEPT !["writer"] = NoCall]
    /\ UNCHANGED <<now, file, appended, listenerVars, queue, controllerVars,
                   historyVars, fed, gate, repoLock, linearized, harnessVars>>

NextFeed ==
    \/ Tick
    \/ \E a \in FedAddresses : Emit(a)
    \/ EmitCallback
    \/ LoopPut
    \/ Wake
    \/ ReadLatest
    \/ StartExecution
    \/ TradeSucceeds
    \/ TradeFails
    \/ SleepDone

\* run() in its loop, never cancelled, fed through the callback
SpecFeed == InitFeed /\ [][NextFeed]_vars

(* ------------- execute_trade called by concurrent tasks ---------------- *)
\* execute_trade, line 89: task c calls execute_trade and reaches the lock
GateCall(c) ==
    /\ gate.at[c] = "idle"
    /\ gate' = IF LockAvailable(gate.locked, gate.waiters, gate.cancelled)
               THEN [gate EXCEPT !.locked = TRUE, !.at[c] = "started"]
               ELSE [gate EXCEPT !.waiters = Append(@, c), !.at[c] = "waiting"]
    /\ UNCHANGED <<now, file, appended, listenerVars, inflight, queue,
                   controllerVars, historyVars, fed, storeVars, harnessVars>>

\* asyncio.Lock.acquire resumed with the result of its future: the task leaves
\* the queue and takes the lock
GateAcquire(c) ==
    /\ gate.at[c] = "waiting"
    /\ c \in gate.woken
    /\ c \notin gate.mustCancel
    /\ gate' = [gate EXCEPT !.locked = TRUE, !.waiters = Without(@, c),
                            !.woken = @ \ {c}, !.at[c] = "started"]
    /\ UNCHANGED <<now, file, appended, listenerVars, inflight, queue,
                   controllerVars, historyVars, fed, storeVars, harnessVars>>

\* task.cancel() on a task waiting for the lock: its future is cancelled at
\* once, or, if the future has its result already, the task is marked; the
\* task has not run yet and its future stays in the queue
GateCancel(c) ==
    /\ gate.at[c] = "waiting"
    /\ c \notin gate.cancelled \cup gate.mustCancel
    /\ gate' = IF c \in gate.woken
               THEN [gate EXCEPT !.mustCancel = @ \cup {c}]
               ELSE [gate EXCEPT !.cancelled = @ \cup {c}]
    /\ UNCHANGED <<now, file, appended, listenerVars, inflight, queue,
                   controllerVars, historyVars, fed, storeVars, harnessVars>>

\* asyncio.Lock.acquire resumed with CancelledError: the task takes its future
\* out of the queue and, if the lock is free, wakes up the first waiter
GateCancelledStep(c) ==
    /\ gate.at[c] = "waiting"
    /\ c \in gate.cancelled \cup gate.mustCancel
    /\ gate' = [gate EXCEPT
                   !.waiters = Without(@, c),
                   !.cancelled = @ \ {c},
                   !.mustCancel = @ \ {c},
                   !.woken = IF gate.locked THEN @ \ {c}
                             ELSE WakeUpFirst(Without(gate.waiters, c), @ \ {c},
                                              gate.cancelled \ {c}),
                   !.at[c] = "idle"]
    /\ UNCHANGED <<now, file, appended, listenerVars, inflight, queue,
                   controllerVars, historyVars, fed, storeVars, harnessVars>>

\* execute_trade, lines 97-100: the body advances past one of its awaits
GateStep(c) ==
    /\ gate.at[c] \in {"started", "navigated"}
    /\ gate' = [gate EXCEPT !.at[c] = IF @ = "started" THEN "navigated" ELSE "prepared"]
    /\ UNCHANGED <<now, file, appended, listenerVars, inflight, queue,
                   controllerVars, historyVars, fed, storeVars, harnessVars>>

\* execute_trade, lines 89-101: the body returns (the GUI flow from "started",
\* the browser flow from "prepared") or raises at any of its awaits; leaving
\* the async with releases the lock
GateLeave(c) ==
    /\ gate.at[c] \in InsideGate
    /\ gate' = [gate EXCEPT !.locked = FALSE,
                            !.woken = WakeUpFirst(gate.waiters, @, gate.cancelled),
                            !.at[c] = "idle"]
    /\ UNCHANGED <<now, file, appended, listenerVars, inflight, queue,
                   controllerVars, historyVars, fed, storeVars, harnessVars>>

NextGate ==
    \/ \E c \in Callers : GateCall(c)
    \/ \E c \in Callers : GateAcquire(c)
    \/ \E c \in Callers : GateCancel(c)
    \/ \E c \in Callers : GateCancelledStep(c)
    \/ \E c \in Callers : GateStep(c)
    \/ \E c \in Callers : GateLeave(c)

SpecGate == Init /\ [][NextGate]_vars

(* ------- the controller fed through the callback and cancelled -------- *)
\* the passage of time while the driver is at work
EmitTick ==
    /\ now < MaxEmitTime
    /\ Tick

NextEmit ==
    \/ EmitTick
    \/ \E a \in FedAddresses : Emit(a)
    \/ EmitCallback
    \/ LoopPut
    \/ Wake
    \/ ReadLatest
    \/ StartExecution
    \/ TradeSucceeds
    \/ TradeFails
    \/ SleepDone
    \/ Cancel
    \/ StopCall
    \/ StopReturns
    \/ StopRaises
    \/ \E c \in BOOLEAN : CloseDone(c)

SpecEmit == InitFeed /\ [][NextEmit]_vars

\* the event loop is fair to its ready callbacks: a put scheduled with
\* run_coroutine_threadsafe runs once run() is suspended; and the synchronous
\* code of run() goes on to its next await
SpecEmitLive ==
    /\ SpecEmit
    /\ WF_vars(LoopPut)
    /\ WF_vars(Wake) /\ WF_vars(ReadLatest) /\ WF_vars(StartExecution)
    /\ WF_vars(StopCall) /\ WF_vars(StopReturns \/ StopRaises)

\* asyncio.sleep(retry_delay) in progress: time goes on until the delay is over
SleepTick ==
    /\ pc = "sleeping"
    /\ now < sleepStart + RetryDelayTicks
    /\ now' = now + 1
    /\ UNCHANGED <<file, appended, listenerVars, inflight, queue, controllerVars,
                   historyVars, fed, gate, storeVars, harnessVars>>

\* the driver of Emit, making a few observations only
EmitFew(address) ==
    /\ fed < MaxLiveFeeds
    /\ Emit(address)

\* time passes at any await of run(), while it waits on its queue, and while
\* the driver and the trade are at work
LiveTick ==
    /\ now < MaxLiveTime
    /\ Tick

\* a retry delay started near the last instant of the clock runs to its end
\* (SleepTick)
NextEmitFair ==
    \/ LiveTick
    \/ \E a \in FedAddresses : EmitFew(a)
    \/ EmitCallback
    \/ LoopPut
    \/ Wake
    \/ ReadLatest
    \/ StartExecution
    \/ TradeSucceeds
    \/ TradeFails
    \/ SleepDone
    \/ SleepTick
    \/ Cancel
    \/ StopCall
    \/ StopReturns
    \/ StopRaises
    \/ \E c \in BOOLEAN : CloseDone(c)

\* the event loop is fair to run(): it resumes it when its queue has an item,
\* when its delay is over and when the attempt in flight ends, and every
\* attempt ends, by returning or by raising; the synchronous code of run()
\* goes on to its next await, and close() ends; cancellation may come or not
SpecEmitFair ==
    /\ InitFeed /\ [][NextEmitFair]_vars
    /\ WF_vars(LoopPut) /\ WF_vars(Wake) /\ WF_vars(ReadLatest) /\ WF_vars(StartExecution)
    /\ WF_vars(TradeSucceeds \/ TradeFails)
    /\ WF_vars(SleepTick) /\ WF_vars(SleepDone)
    /\ WF_vars(StopCall) /\ WF_vars(StopReturns \/ StopRaises)
    /\ WF_vars(\E c \in BOOLEAN : CloseDone(c))

NextRun ==
    \/ NextEmit
    \/ LoopClose

\* run() from its loop to Stopped and the loop to its closing, with a Capture
\* Source that may outlive them
SpecRun == InitFeed /\ [][NextRun]_vars

(* ------------- the Capture Source capturing scan after scan ------------ *)
\* the addresses seen in the chat window
CaptureAddresses == {<<"A">>, <<"B">>, <<"C">>, <<"D">>}

\* the clock of the capture loop moves on while the thread sleeps or works
CaptureTick ==
    /\ now < MaxCaptureTime
    /\ now' = now + 1
    /\ UNCHANGED <<file, appended, listenerVars, inflight, queue, controllerVars,
                   historyVars, fed, gate, storeVars, harnessVars>>

\* _loop, lines 87-90 with _write_temp_addresses, and _handle_latest_record,
\* lines 374-375: the scan found `address`; the record is stamped with the
\* clock's instant, the history read and the decision to trade made. The
\* capture is logged in `trace`
CaptureScan(address) ==
    /\ Len(trace) < MaxCaptures
    /\ lpc = "scanning"
    /\ lpc' = "handling"
    /\ LET rec     == create_record(address, now)
           history == read_all(file)
       IN  /\ threads' = [threads EXCEPT !["listener"] =
                             [at |-> "calling", rec |-> rec, lines |-> <<>>,
                              history |-> history, decided |-> TRUE,
                              shouldTrade |-> should_execute_trade(rec, history)]]
           /\ trace' = Append(trace, rec)
    /\ UNCHANGED <<now, file, appended, running, paused, ltimer, inflight, queue,
                   controllerVars, historyVars, fed, gate, repoLock, linearized,
                   call, result, snapshots>>

NextCapture ==
    \/ Start
    \/ CaptureTick
    \/ ListenerBegin
    \/ \E a \in CaptureAddresses : CaptureScan(a)
    \/ ListenerNothing
    \/ ListenerAppend
    \/ ListenerCallback
    \/ \E windowNotFound \in BOOLEAN : ListenerFault(windowNotFound)

SpecCapture == Init /\ [][NextCapture]_vars

(* ---------------- the Record Store driven on its own ------------------- *)
\* a caller appends a record with any address and any timestamp
HarnessAppend(address, timestamp) ==
    /\ file' = RepoAppend(file, create_record(address, timestamp))
    /\ appended' = appended \cup {create_record(address, timestamp)}
    /\ UNCHANGED <<now, listenerVars, inflight, queue, controllerVars, historyVars, fed, gate, storeVars, harnessVars>>

\* a caller clears the ledger
HarnessClear ==
    /\ file' = RepoClear(file)
    /\ appended' = {}
    /\ UNCHANGED <<now, listenerVars, inflight, queue, controllerVars, historyVars, fed, gate, storeVars, harnessVars>>

NextRepo ==
    \/ \E a \in Addresses, t \in 0..MaxTs : HarnessAppend(a, t)
    \/ HarnessClear

SpecRepo == Init /\ [][NextRepo]_vars

(* ------------- the Record Store called from several threads ------------ *)
\* the calls in progress and the writes made since the last clear
OpenCalls == Len(linearized) + Cardinality({t \in Threads : threads[t].at # "idle"})

\* _handle_latest_record, lines 374-375: read_all() (one acquisition of the
\* lock), then the trade/suppress decision on the history read; append is
\* called next
ThreadHandleLatestRecord(t, address, timestamp) ==
    /\ threads[t].at = "idle"
    /\ OpenCalls < MaxWrites
    /\ RepoLockFree(repoLock)
    /\ LET rec     == create_record(address, timestamp)
           history == read_all(file)
       IN  threads' = [threads EXCEPT ![t] =
                          [at |-> "calling", rec |-> rec, lines |-> <<>>,
                           history |-> history, decided |-> TRUE,
                           shouldTrade |-> should_execute_trade(rec, history)]]
    /\ UNCHANGED <<now, file, appended, listenerVars, inflight, queue,
                   controllerVars, historyVars, fed, gate, repoLock, linearized, harnessVars>>

\* a thread calls append(record) and reaches `with self._lock`
ThreadAppendCall(t, address, timestamp) ==
    /\ threads[t].at = "idle"
    /\ OpenCalls < MaxWrites
    /\ threads' = [threads EXCEPT ![t] =
                      [NoCall EXCEPT !.at = "calling",
                                     !.rec = create_record(address, timestamp)]]
    /\ UNCHANGED <<now, file, appended, listenerVars, inflight, queue,
                   controllerVars, historyVars, fed, gate, repoLock, linearized, harnessVars>>

\* append, lines 50-52: the lock is taken and the file read
ThreadAppendEnter(t) ==
    /\ threads[t].at = "calling"
    /\ RepoLockFree(repoLock)
    /\ repoLock' = t
    /\ threads' = [threads EXCEPT ![t].at = "merging", ![t].lines = file]
    /\ UNCHANGED <<now, file, appended, listenerVars, inflight, queue,
                   controllerVars, historyVars, fed, gate, linearized, harnessVars>>

\* append, lines 53-71: the lines read are merged with the record, sorted and
\* written back; leaving the with block releases the lock
ThreadAppendWrite(t) ==
    /\ threads[t].at = "merging"
    /\ file' = RepoAppend(threads[t].lines, threads[t].rec)
    /\ linearized' = Append(linearized, threads[t].rec)
    /\ repoLock' = "free"
    /\ threads' = [threads EXCEPT ![t] = NoCall]
    /\ UNCHANGED <<now, appended, listenerVars, inflight, queue,
                   controllerVars, historyVars, fed, gate, harnessVars>>

\* clear(): the file is emptied under the lock
ThreadClear(t) ==
    /\ threads[t].at = "idle"
    /\ RepoLockFree(repoLock)
    /\ file' = RepoClear(file)
    /\ linearized' = <<>>
    /\ UNCHANGED <<now, appended, listenerVars, inflight, queue,
                   controllerVars, historyVars, fed, gate, repoLock, threads, harnessVars>>

NextStore ==
    \/ \E a \in FedAddresses, ts \in 0..MaxStamp :
           ThreadHandleLatestRecord("listener", a, ts)
    \/ \E t \in Threads, a \in FedAddresses, ts \in 0..MaxStamp :
           ThreadAppendCall(t, a, ts)
    \/ \E t \in Threads : ThreadAppendEnter(t)
    \/ \E t \in Threads : ThreadAppendWrite(t)
    \/ \E t \in Threads : ThreadClear(t)

SpecStore == Init /\ [][NextStore]_vars

(* ------- the controller executing while threads call the Record Store -- *)
\* append, lines 53-71: the listener's append writes the file and releases the
\* lock; the callback is not called yet
ListenerAppendWrite ==
    /\ threads["listener"].at = "merging"
    /\ file' = RepoAppend(threads["listener"].lines, threads["listener"].rec)
    /\ linearized' = Append(linearized, threads["listener"].rec)
    /\ repoLock' = "free"
    /\ threads' = [threads EXCEPT !["listener"].at = "appended"]
    /\ UNCHANGED <<now, appended, listenerVars, inflight, queue, controllerVars,
                   historyVars, fed, gate, harnessVars>>

\* _loop, lines 87-90 with _write_temp_addresses, line 429: the scan found
\* `address` and the record is stamped with the clock's instant; the store has
\* not been called yet. _paused was tested at the top of the iteration (line
\* 84, ListenerBegin) and is not looked at again
ListenerStamp(address) ==
    /\ lpc = "scanning"
    /\ lpc' = "handling"
    /\ threads' = [threads EXCEPT !["listener"] =
                      [NoCall EXCEPT !.at = "stamped",
                                     !.rec = create_record(address, now)]]
    /\ UNCHANGED <<now, file, appended, running, paused, ltimer, inflight, queue,
                   controllerVars, historyVars, fed, gate, repoLock, linearized,
                   harnessVars>>

\* _handle_latest_record, lines 374-375: read_all() waits for the store's lock,
\* reads the history and releases the lock; the decision to trade is made on
\* the history read; append is called next
ListenerReadAll ==
    /\ threads["listener"].at = "stamped"
    /\ RepoLockFree(repoLock)
    /\ LET rec     == threads["listener"].rec
           history == read_all(file)
       IN  threads' = [threads EXCEPT !["listener"] =
                          [at |-> "calling", rec |-> rec, lines |-> <<>>,
                           history |-> history, decided |-> TRUE,
                           shouldTrade |-> should_execute_trade(rec, history)]]
    /\ UNCHANGED <<now, file, appended, listenerVars, inflight, queue,
                   controllerVars, historyVars, fed, gate, repoLock, linearized,
                   harnessVars>>

\* the passage of time while the threads and the controller are at work
LocksTick ==
    /\ now < MaxLocksTime
    /\ Tick

\* the pipeline started, its listener thread going round its loop, a second
\* thread appending to the store, and the controller evaluating and executing
NextLocks ==
    \/ LocksTick
    \/ Start
    \/ ListenerBegin
    \/ ListenerNothing
    \/ \E a \in FedAddresses : ListenerStamp(a)
    \/ ListenerReadAll
    \/ ThreadAppendEnter("listener")
    \/ ListenerAppendWrite
    \/ ListenerCallback
    \/ \E a \in FedAddresses : ThreadAppendCall("writer", a, now)
    \/ ThreadAppendEnter("writer")
    \/ ThreadAppendWrite("writer")
    \/ LoopPut
    \/ Wake
    \/ ReadLatestLocked
    \/ StartExecution
    \/ TradeSucceeds
    \/ TradeFails
    \/ SleepDone

SpecLocks == Init /\ [][NextLocks]_vars

(* ---------- the Record Store on any ledger, one call after another ----- *)
\* the lines a ledger file can hold: record lines, a record line with
\* whitespace (a unit separator, a blank) around its address, a line whose timestamp does not parse, a line without
\* separator
LedgerLines ==
    {to_line(create_record(a, ts)) : a \in FedAddresses, ts \in 0..MaxStamp}
        \cup {<<0, <<UnitSeparator, "B", " ">>>>, <<UnparsableStamp, <<"A">>>>, <<<<"A">>>>}

\* the sequences of at most n lines
RECURSIVE LedgersUpTo(_)
LedgersUpTo(n) ==
    IF n = 0 THEN {<<>>}
    ELSE LET shorter == LedgersUpTo(n - 1)
         IN  shorter \cup {Append(l, x) : l \in shorter, x \in LedgerLines}

\* a call on the repository: its name and arguments, the ledger it found, and
\* the name of the call made before it
LedgerCall(op, rec, fault) ==
    [op |-> op, rec |-> rec, fault |-> fault, ledger |-> file, prev |-> call.op]

\* no call made yet
NoLedgerCall ==
    [op |-> "none", rec |-> NoRecord, fault |-> "none", ledger |-> <<>>,
     prev |-> "none"]

InitLedger ==
    /\ InitRest
    /\ file \in LedgersUpTo(MaxLedgerLines)
    /\ call = NoLedgerCall
    /\ result = NoResult

\* read_all() is called and returns
LedgerReadAll ==
    /\ call' = LedgerCall("read_all", NoRecord, "none")
    /\ result' = [done |-> TRUE, value |-> read_all(file)]
    /\ UNCHANGED <<now, file, appended, listenerVars, inflight, queue, controllerVars,
                   historyVars, fed, gate, storeVars, trace, snapshots>>

\* read_latest() is called and returns
LedgerReadLatest ==
    /\ call' = LedgerCall("read_latest", NoRecord, "none")
    /\ result' = [done |-> TRUE, value |-> read_latest(file)]
    /\ UNCHANGED <<now, file, appended, listenerVars, inflight, queue, controllerVars,
                   historyVars, fed, gate, storeVars, trace, snapshots>>

\* clear() is called and returns
LedgerClear ==
    /\ file' = RepoClear(file)
    /\ call' = LedgerCall("clear", NoRecord, "none")
    /\ result' = [done |-> TRUE, value |-> NoRecord]
    /\ UNCHANGED <<now, appended, listenerVars, inflight, queue, controllerVars,
                   historyVars, fed, gate, storeVars, trace, snapshots>>

\* append(record) is called and returns
LedgerAppend(address, timestamp) ==
    /\ file' = RepoAppend(file, create_record(address, timestamp))
    /\ call' = LedgerCall("append", create_record(address, timestamp), "none")
    /\ result' = [done |-> TRUE, value |-> NoRecord]
    /\ UNCHANGED <<now, appended, listenerVars, inflight, queue, controllerVars,
                   historyVars, fed, gate, storeVars, trace, snapshots>>

\* a backup() call has not returned yet
BackupInProgress == call.op = "backup" /\ ~result.done

\* backup(), lines 103-106: the name of the snapshot is made from the clock and
\* the backup directory created; an OSError of mkdir leaves backup()
LedgerBackupCall(fault) ==
    /\ Len(trace) < MaxBackups
    /\ ~BackupInProgress
    /\ call' = LedgerCall("backup", NoRecord, fault)
    /\ result' = IF fault = "mkdir"
                 THEN [done |-> TRUE, value |-> BackupOutcome(fault, now)]
                 ELSE [done |-> FALSE,
                       value |-> [instant |-> now, read |-> FALSE, data |-> <<>>]]
    /\ UNCHANGED <<now, file, appended, listenerVars, inflight, queue, controllerVars,
                   historyVars, fed, gate, storeVars, trace, snapshots>>

\* backup(), lines 108-109: the ledger is read under the lock, which is then
\* released; an OSError of the read ends the call with None
LedgerBackupRead ==
    /\ BackupInProgress
    /\ ~result.value.read
    /\ RepoLockFree(repoLock)
    /\ result' = IF call.fault = "read"
                 THEN [done |-> TRUE,
                       value |-> BackupOutcome(call.fault, result.value.instant)]
                 ELSE [result EXCEPT !.value.read = TRUE, !.value.data = file]
    /\ UNCHANGED <<now, file, appended, listenerVars, inflight, queue, controllerVars,
                   historyVars, fed, gate, storeVars, trace, snapshots, call>>

\* backup(), lines 110-115: the bytes read are written to the target, outside
\* the lock, and the call ends: with None after an OSError of the write, else
\* with the path of the snapshot, which is then logged in `trace`
LedgerBackupWrite ==
    /\ BackupInProgress
    /\ result.value.read
    /\ snapshots' \in BackupWrite(snapshots, result.value.data, call.fault,
                                  result.value.instant)
    /\ result' = [done |-> TRUE,
                  value |-> BackupOutcome(call.fault, result.value.instant)]
    /\ trace' = IF call.fault = "none"
                THEN Append(trace, [target |-> SnapshotName(result.value.instant)])
                ELSE trace
    /\ UNCHANGED <<now, file, appended, listenerVars, inflight, queue, controllerVars,
                   historyVars, fed, gate, storeVars, call>>

NextLedger ==
    \/ LedgerReadAll
    \/ LedgerReadLatest
    \/ LedgerClear
    \/ \E a \in FedAddresses, ts \in 0..MaxStamp : LedgerAppend(a, ts)

SpecLedger == InitLedger /\ [][NextLedger]_vars

(* ------------- backup() called while the ledger is written ------------- *)
InitBackup ==
    /\ InitRest
    /\ file = <<>>
    /\ call = NoLedgerCall
    /\ result = NoResult

\* backup() called by one thread while another appends to the ledger, at any
\* point of the call outside the lock, and the clock moves on
NextBackup ==
    \/ EmitTick
    \/ \E a \in FedAddresses, ts \in 0..MaxStamp : ThreadAppendCall("writer", a, ts)
    \/ ThreadAppendEnter("writer")
    \/ ThreadAppendWrite("writer")
    \/ \E fault \in BackupFaults : LedgerBackupCall(fault)
    \/ LedgerBackupRead
    \/ LedgerBackupWrite

SpecBackup == InitBackup /\ [][NextBackup]_vars

(* ------------- the Capture Source interface driven on its own ---------- *)
\* pause() is called
ApiPause ==
    /\ Len(trace) < MaxCalls
    /\ paused' = pause(paused)
    /\ trace' = Append(trace, "pause")
    /\ UNCHANGED <<now, file, appended, running, lpc, ltimer, inflight, queue,
                   controllerVars, historyVars, fed, gate, storeVars, call, result, snapshots>>

\* resume() is called
ApiResume ==
    /\ Len(trace) < MaxCalls
    /\ paused' = resume(paused)
    /\ trace' = Append(trace, "resume")
    /\ UNCHANGED <<now, file, appended, running, lpc, ltimer, inflight, queue,
                   controllerVars, historyVars, fed, gate, storeVars, call, result, snapshots>>

\* stop() has cleared _running and waits in join (line 76)
ApiJoining == calls.stopAt # NoInstant

\* start(), lines 59-71: the call returns at once while the thread of an earlier
\* start is alive (60-62); ensure_ready failing (`ready` false), the error is
\* raised again before _running is set (63-67); otherwise _running is set and
\* a thread started at the top of _loop (68-70)
ApiStart(ready) ==
    /\ Len(trace) < MaxCalls
    /\ ~ApiJoining
    /\ IF lpc \notin {"none", "dead"} \/ ~ready
       THEN UNCHANGED <<running, lpc, ltimer>>
       ELSE /\ running' = TRUE
            /\ lpc' = "top"
            /\ ltimer' = now
    /\ trace' = Append(trace, "start")
    /\ UNCHANGED <<now, file, appended, paused, inflight, queue,
                   controllerVars, historyVars, fed, gate, storeVars, call, result, snapshots>>

\* stop(), lines 73-75: _running is cleared; the call then joins the thread
ApiStop ==
    /\ Len(trace) < MaxCalls
    /\ ~ApiJoining
    /\ running' = FALSE
    /\ calls' = [calls EXCEPT !.stopAt = now]
    /\ trace' = Append(trace, "stop")
    /\ UNCHANGED <<now, file, appended, paused, lpc, ltimer, inflight, queue, pc,
                   record, attempt, sleepStart, recent, loop, wake, seq, escaped,
                   decisions, fed, gate, storeVars, call, result, snapshots, lastDone>>

\* stop(), lines 75-77: there is no thread, the thread has ended, or the
\* timeout of the join is over, with the thread still alive; stop() returns
ApiStopReturns ==
    /\ ApiJoining
    /\ lpc \in {"none", "dead"} \/ now >= calls.stopAt + JOIN_TIMEOUT_TICKS
    /\ calls' = [calls EXCEPT !.stopAt = NoInstant]
    /\ UNCHANGED <<now, file, appended, listenerVars, inflight, queue, pc, record,
                   attempt, sleepStart, recent, loop, wake, seq, escaped,
                   decisions, fed, gate, storeVars, harnessVars, lastDone>>

\* the calls of the interface, made from any thread, the clock, and the
\* listener thread going round its loop (its scans find no address, or fail)
NextApi ==
    \/ Tick
    \/ ApiPause
    \/ ApiResume
    \/ \E ready \in BOOLEAN : ApiStart(ready)
    \/ ApiStop
    \/ ApiStopReturns
    \/ ListenerBegin
    \/ ListenerNothing
    \/ \E windowNotFound \in BOOLEAN : ListenerFault(windowNotFound)

SpecApi == Init /\ [][NextApi]_vars

(* ------------------- the functions called on their own ----------------- *)
\* is_recent called with no record or a record of any timestamp, at any instant
IsRecentCalls ==
    {[op |-> "is_recent", rec |-> r, reference |-> t] :
        r \in {NoRecord} \cup {create_record(<<"A">>, ts) : ts \in 0..MaxTime},
        t \in 0..MaxTime}

\* a prefix followed by n copies of one character
Filled(prefix, ch, n) == prefix \o [i \in 1..n |-> ch]

\* candidate addresses: None, and two-character prefixes followed by one
\* character repeated to the right length, one short or one long
Candidates ==
    {<<>>} \cup
    {Filled(p, ch, n) : p \in {<<"0", "x">>, <<"0", "X">>, <<"1", "x">>, <<" ", "0", "x">>},
                        ch \in {"a", "F", "g", "9"},
                        n \in {ADDRESS_LENGTH - 3, ADDRESS_LENGTH - 2, ADDRESS_LENGTH - 1}}

NormalizeCalls == {[op |-> "normalize_address", candidate |-> c] : c \in Candidates}

CreateRecordCalls == {[op |-> "create_record", address |-> c] : c \in Candidates}

\* lines with a timestamp and any candidate after the separator, and a line
\* without separator
FromLineCalls ==
    {[op |-> "from_line", line |-> l] :
        l \in {<<0, c>> : c \in Candidates} \cup {<<<<"A">>>>}}

\* lines whose timestamp part does not parse
BadTimestampCalls ==
    {[op |-> "from_line", line |-> <<UnparsableStamp, c>>] : c \in Candidates}

\* the states of the Debounce Tracker: per address no entry or an instant
TrackerStates == [Addresses -> {NoInstant} \cup 0..MaxTs]

ShouldSkipCalls ==
    {[op |-> "should_skip", tracker |-> t, address |-> a, reference |-> r] :
        t \in TrackerStates, a \in Addresses, r \in 0..MaxTime}

PruneCalls ==
    {[op |-> "prune", tracker |-> t, reference |-> r] :
        t \in TrackerStates, r \in 0..MaxTime}

RecordExecutionCalls ==
    {[op |-> "record_execution", tracker |-> t, address |-> a, reference |-> r] :
        t \in TrackerStates, a \in Addresses, r \in 0..MaxTime}

\* the calls the function driver makes
PureCalls ==
    IsRecentCalls \cup NormalizeCalls \cup CreateRecordCalls \cup FromLineCalls
        \cup BadTimestampCalls \cup ShouldSkipCalls \cup PruneCalls
        \cup RecordExecutionCalls

InitPure ==
    /\ InitRest
    /\ file = <<>>
    /\ call \in PureCalls
    /\ result = NoResult

\* TimeGuard.is_recent is called and returns
ApplyIsRecent ==
    /\ call.op = "is_recent"
    /\ ~result.done
    /\ result' = [done |-> TRUE, value |-> is_recent(call.rec, call.reference)]
    /\ UNCHANGED <<now, file, appended, listenerVars, inflight, queue, controllerVars,
                   historyVars, fed, gate, storeVars, trace, call, snapshots>>

\* _normalize_address is called and returns
ApplyNormalize ==
    /\ call.op = "normalize_address"
    /\ ~result.done
    /\ result' = [done |-> TRUE, value |-> normalize_address(call.candidate)]
    /\ UNCHANGED <<now, file, appended, listenerVars, inflight, queue, controllerVars,
                   historyVars, fed, gate, storeVars, trace, call, snapshots>>

\* create_record is called and returns
ApplyCreateRecord ==
    /\ call.op = "create_record"
    /\ ~result.done
    /\ result' = [done |-> TRUE, value |-> create_record(call.address, now)]
    /\ UNCHANGED <<now, file, appended, listenerVars, inflight, queue, controllerVars,
                   historyVars, fed, gate, storeVars, trace, call, snapshots>>

\* AddressRecord.from_line is called and returns
ApplyFromLine ==
    /\ call.op = "from_line"
    /\ ~result.done
    /\ result' = [done |-> TRUE, value |-> from_line(call.line)]
    /\ UNCHANGED <<now, file, appended, listenerVars, inflight, queue, controllerVars,
                   historyVars, fed, gate, storeVars, trace, call, snapshots>>

\* _should_skip is called for a record of call.address at call.reference
ApplyShouldSkip ==
    /\ call.op = "should_skip"
    /\ ~result.done
    /\ result' = [done |-> TRUE,
                  value |-> should_skip(call.tracker, create_record(call.address, 0),
                                        call.reference)]
    /\ UNCHANGED <<now, file, appended, listenerVars, inflight, queue, controllerVars,
                   historyVars, fed, gate, storeVars, trace, call, snapshots>>

\* _prune_recent_executions(reference) is called; the tracker afterwards
ApplyPrune ==
    /\ call.op = "prune"
    /\ ~result.done
    /\ result' = [done |-> TRUE,
                  value |-> prune_recent_executions(call.tracker, call.reference)]
    /\ UNCHANGED <<now, file, appended, listenerVars, inflight, queue, controllerVars,
                   historyVars, fed, gate, storeVars, trace, call, snapshots>>

\* _process_record, lines 86-90, after an execution; the tracker afterwards
ApplyRecordExecution ==
    /\ call.op = "record_execution"
    /\ ~result.done
    /\ result' = [done |-> TRUE,
                  value |-> record_execution(call.tracker, call.address, call.reference)]
    /\ UNCHANGED <<now, file, appended, listenerVars, inflight, queue, controllerVars,
                   historyVars, fed, gate, storeVars, trace, call, snapshots>>

NextPure ==
    \/ ApplyShouldSkip
    \/ ApplyPrune
    \/ ApplyRecordExecution
    \/ ApplyIsRecent
    \/ ApplyNormalize
    \/ ApplyCreateRecord
    \/ ApplyFromLine

SpecPure == InitPure /\ [][NextPure]_vars

(* ============================== claims ================================= *)
\* maximum of a non-empty set of integers
MaxOf(S) == CHOOSE x \in S : \A y \in S : y <= x

\* the entries the ledger holds for an address
EntriesFor(address) == {i \in 1..Len(read_all(file)) : read_all(file)[i].address = address}

\* C1 (merge invariant): after any sequence of append calls that all carry the
\* same address, in any order of their timestamps, read_latest() is the record
\* with the greatest timestamp among those appended and the store holds exactly
\* one entry for that address.
C1_MergeKeepsMaxTimestamp ==
    \A a \in Addresses :
        (appended # {} /\ \A r \in appended : r.address = a) =>
            /\ read_latest(file) =
                   create_record(a, MaxOf({r.timestamp : r \in appended}))
            /\ Cardinality(EntriesFor(a)) = 1

(* ---------------------------------------------------------------------- *)
\* C2 as stated (staleness at every attempt): whenever an execute_trade call of
\* the pipeline is in flight, the record was no older than max_age at the moment
\* that call was made, for the first attempt and for every retry.
C2_FreshAtEveryAttempt ==
    pc = "executing" => seq.last - seq.timestamp <= MaxAgeTicks

\* C2 amended: an attempt sequence is made only for a record that was no older
\* than max_age at the moment _process_record tested its recency (the one test
\* made for it, before read_latest and the other gates), and a record found
\* stale by that test starts no attempt sequence.
C2_FreshWhenTested ==
    /\ wake.gate \in {"reading", "notlatest", "debounced", "passed", "error"} =>
           wake.checked - wake.chosen.timestamp <= MaxAgeTicks
    /\ wake.gate = "stale" =>
           /\ wake.checked - wake.chosen.timestamp > MaxAgeTicks
           /\ pc \notin {"reading", "pausing", "executing", "sleeping"}
    /\ pc \in {"pausing", "executing", "sleeping"} =>
           /\ wake.gate = "passed"
           /\ wake.chosen = record
           /\ wake.checked - record.timestamp <= MaxAgeTicks

\* a first attempt made for a record that was exactly max_age old when tested
\* and is older when the attempt is made (read_latest waited for the store)
C2_Witness ==
    /\ pc = "executing"
    /\ seq.calls = 1
    /\ wake.checked - seq.timestamp = MaxAgeTicks
    /\ seq.first - seq.timestamp > MaxAgeTicks

\* C3 (debounce): an invocation of the decision path for an address whose last
\* attempt sequence ended less than the debounce window ago is skipped; one that
\* reaches the debounce gate with no such sequence, or one that ended a window or
\* more ago, runs the sequence again. With a window of 1.5 s: X evaluated at t
\* executes, X evaluated at t + 0.5 s is skipped, X evaluated at t + 2.0 s
\* executes again.
C3_Debounce ==
    /\ wake.gate = "debounced" =>
           /\ wake.lastDone # NoInstant
           /\ wake.at - wake.lastDone < DEBOUNCE_TICKS
    /\ wake.gate = "passed" =>
           \/ wake.lastDone = NoInstant
           \/ wake.at - wake.lastDone >= DEBOUNCE_TICKS
    /\ \A i \in 1..(Len(decisions) - 1) :
           ( /\ decisions[i].gate = "passed"
             /\ decisions[i + 1].address = decisions[i].address
             /\ decisions[i + 1].at = decisions[i].at + 1
             /\ decisions[i + 1].gate \in {"debounced", "passed"} )
           => /\ decisions[i + 1].gate = "debounced"
              /\ ( /\ i + 2 <= Len(decisions)
                   /\ decisions[i + 2].address = decisions[i].address
                   /\ decisions[i + 2].at = decisions[i].at + 4
                   /\ decisions[i + 2].gate \in {"debounced", "passed"} )
                 => decisions[i + 2].gate = "passed"

\* X executed, X skipped half a second later, X executed two seconds after the first
C3_Witness ==
    /\ Len(decisions) = 3
    /\ \A i \in 1..3 : decisions[i].address = <<"A">>
    /\ decisions[1].gate = "passed"
    /\ decisions[2].gate = "debounced" /\ decisions[2].at = decisions[1].at + 1
    /\ decisions[3].gate = "passed" /\ decisions[3].at = decisions[1].at + 4

\* C4 (retry bound): an attempt sequence that ends with every attempt failed has
\* made exactly retry_attempts execute_trade calls (and none makes more), and
\* the step that ends it leaves the controller waiting on its queue with no
\* exception out of run().
C4_RetryBound ==
    /\ [](/\ seq.calls <= RETRY_ATTEMPTS
          /\ (seq.outcome = "exhausted" => seq.calls = RETRY_ATTEMPTS))
    /\ [][(seq.outcome # "exhausted" /\ seq'.outcome = "exhausted")
            => (pc' \in {"waiting", "ready"} /\ escaped' = "none")]_vars

\* every attempt failed and the controller is back on its queue
C4_Witness ==
    /\ seq.outcome = "exhausted"
    /\ seq.calls = RETRY_ATTEMPTS
    /\ pc = "waiting"

\* C5 (pause/resume pairing): pause() has been called once per attempt sequence
\* started and resume() once per sequence ended, by success, by exhaustion or
\* by cancellation; so resume() calls equal pause() calls, or are one less
\* exactly while a sequence is in progress (and the listener is then paused).
C5_PauseResumePaired ==
    /\ calls.pause = seq.started
    /\ IF pc \in {"executing", "sleeping"}
       THEN calls.resume = calls.pause - 1 /\ paused
       ELSE calls.resume = calls.pause /\ ~paused

\* a sequence that ran out of attempts, paused once and resumed once
C5_Witness ==
    /\ seq.outcome = "exhausted"
    /\ calls.pause = 1
    /\ calls.resume = 1

\* C6 (coalescing): the record the consumer evaluated on its last wake is the
\* last item of the queue as it was at that wake, and the queue was empty when
\* the evaluation started.
C6_Coalescing ==
    wake.gate # "none" =>
        /\ wake.chosen = wake.pending[Len(wake.pending)]
        /\ wake.rest = <<>>

\* events for A and for B, captured a scan later, were pending; only B's was
\* evaluated, and executed
C6_Witness ==
    /\ Len(wake.pending) = 2
    /\ wake.pending[1].address = <<"A">>
    /\ wake.pending[2].address = <<"B">>
    /\ wake.pending[2].timestamp >= wake.pending[1].timestamp + SCAN_INTERVAL_TICKS
    /\ wake.chosen.address = <<"B">>
    /\ wake.gate = "passed"
    /\ pc = "executing"

\* C7 (not-latest rejection): an attempt sequence is started only for a record
\* that the evaluation found equal, in address and timestamp, to an existing
\* read_latest(); a record found superseded starts none.
C7_OnlyLatestExecutes ==
    /\ wake.gate = "passed" =>
           /\ wake.latest # NoRecord
           /\ wake.latest.address = wake.chosen.address
           /\ wake.latest.timestamp = wake.chosen.timestamp
    /\ pc \in {"executing", "sleeping"} => (wake.gate = "passed" /\ wake.chosen = record)
    /\ wake.gate = "notlatest" => pc \notin {"pausing", "executing", "sleeping"}

\* a fresh record dropped because the store holds a newer timestamp for its address
C7_Witness ==
    /\ wake.gate = "notlatest"
    /\ wake.latest.address = wake.chosen.address
    /\ wake.latest.timestamp > wake.chosen.timestamp

\* C8 (one execution in flight): no two tasks are inside the body of
\* execute_trade at once, and the lock is held whenever one is.
C8_OneInFlight ==
    /\ Cardinality({c \in Callers : gate.at[c] \in InsideGate}) <= 1
    /\ (\E c \in Callers : gate.at[c] \in InsideGate) => gate.locked

\* one task is inside the body while two others wait for the lock
C8_Witness ==
    /\ \E c \in Callers : gate.at[c] \in InsideGate
    /\ Len(gate.waiters) >= 2

\* C9 as stated (guaranteed cleanup): once run() has finished after a successful
\* start, stop() and close() have each been executed exactly once.
C9_CleanupOnEveryExit ==
    (pc = "stopped" /\ lpc # "none") => (calls.stop = 1 /\ calls.close = 1)

\* C10 as stated: when run() has finished after a successful start and one of
\* the two cleanup steps raised, the other one has been executed all the same.
C10_BothCleanupStepsRun ==
    (pc = "stopped" /\ lpc # "none") =>
        /\ escaped = "stop_error" => calls.close = 1
        /\ escaped = "close_error" => calls.stop = 1

(* C11: only a failure of start() and an external cancellation end run(): a
   failure met while an event is processed (a failed trade on any attempt, a
   failed recency check, a failed read_latest) never ends the loop of run() *)
C11_PerEventFailuresAbsorbed ==
    pc = "stopped" => wake.gate # "error"

(* C12: when start() fails at launch, run() ends having called close() exactly
   once and nothing else: the listener thread was never started, stop() was not
   called, no event was dequeued or evaluated and no trade was attempted *)
C12_FatalStartup ==
    (pc = "stopped" /\ lpc = "none") =>
        /\ calls.pause = 0 /\ calls.resume = 0 /\ calls.stop = 0
        /\ calls.stopAt = NoInstant
        /\ calls.close = 1
        /\ ~running
        /\ wake = NoWake
        /\ decisions = <<>>
        /\ seq = NoSeq
        /\ queue = <<>>

\* start() failed and run() is over, some time ago
C12_Witness ==
    /\ pc = "stopped"
    /\ lpc = "none"
    /\ calls.close = 1
    /\ now > 0

\* the instant the latest attempt sequence ended
LatestFinish == MaxOf({lastDone[a] : a \in Addresses})

(* C13: a sequence that ran to its end, by a success or by RETRY_ATTEMPTS
   failures alike, leaves its end instant in the tracker for as long as the
   debounce window lasts, the tracker pruned of what was older than the window
   at that instant; an event for the same address evaluated inside the window
   is skipped whichever way the sequence ended *)
C13_BookkeepingIgnoresOutcome ==
    /\ seq.outcome \in {"success", "exhausted"} =>
          /\ lastDone[seq.address] # NoInstant
          /\ now - lastDone[seq.address] < DEBOUNCE_TICKS =>
                 recent[seq.address] = lastDone[seq.address]
          /\ ( /\ wake.chosen.address = seq.address
               /\ wake.lastDone = lastDone[seq.address]
               /\ wake.gate \in {"debounced", "passed"}
               /\ wake.at - lastDone[seq.address] < DEBOUNCE_TICKS )
             => wake.gate = "debounced"
    /\ \A a \in Addresses :
          recent[a] # NoInstant =>
              /\ recent[a] = lastDone[a]
              /\ LatestFinish - recent[a] < DEBOUNCE_TICKS

\* a sequence ended by RETRY_ATTEMPTS failures, and a later event for the same
\* address, evaluated inside the window, was skipped
C13_Witness ==
    /\ seq.outcome = "exhausted"
    /\ seq.calls = RETRY_ATTEMPTS
    /\ wake.gate = "debounced"
    /\ wake.chosen.address = seq.address
    /\ wake.lastDone = lastDone[seq.address]
    /\ wake.at > lastDone[seq.address]

(* C14: while the listener is paused (after pause() returned and before the
   matching resume()), no step appends a record to the ledger or hands an event
   to the loop for the queue, a scan begun before pause() included *)
C14_PauseSuppressesEmission ==
    [][paused => (file' = file /\ Len(inflight') <= Len(inflight))]_vars

(* C15: in every state reached from the empty ledger by append and clear calls
   with any addresses and timestamps, the ledger holds at most one record per
   address *)
C15_OneRecordPerAddress ==
    \A a \in Addresses : Cardinality(EntriesFor(a)) <= 1

\* an address was appended under three timestamps, another address under two,
\* and the ledger holds one record for each
C15_Witness ==
    /\ Cardinality({r \in appended : r.address = <<"A">>}) = 3
    /\ Cardinality({r \in appended : r.address = <<"B">>}) = 2
    /\ Cardinality(EntriesFor(<<"A">>)) = 1
    /\ Cardinality(EntriesFor(<<"B">>)) = 1

(* C16: after any sequence of appends, read_all() returns the records in
   non-decreasing order of timestamp *)
C16_SortedByTimestamp ==
    \A i, j \in 1..Len(read_all(file)) :
        i < j => read_all(file)[i].timestamp <= read_all(file)[j].timestamp

\* address A went in first with the smallest timestamp and again with the
\* greatest: it is read last, after C and B
C16_Witness ==
    /\ create_record(<<"A">>, 0) \in appended
    /\ read_all(file) = <<create_record(<<"C">>, 1), create_record(<<"B">>, 2),
                          create_record(<<"A">>, 3)>>

(* C17: read_latest() returns a record of the ledger with the greatest timestamp
   among all its records, and None exactly when the ledger holds no valid record *)
C17_ReadLatestIsGreatest ==
    IF read_all(file) = <<>>
    THEN read_latest(file) = NoRecord
    ELSE /\ read_latest(file) # NoRecord
         /\ \E i \in 1..Len(read_all(file)) : read_all(file)[i] = read_latest(file)
         /\ \A i \in 1..Len(read_all(file)) :
                read_all(file)[i].timestamp <= read_latest(file).timestamp

\* three records with different timestamps, the latest appended before another
C17_Witness ==
    /\ Len(read_all(file)) = 3
    /\ read_latest(file) = create_record(<<"B">>, 3)
    /\ read_all(file)[1].timestamp < read_all(file)[2].timestamp
    /\ read_all(file)[2].timestamp < 3
    /\ \E r \in appended : r.address = <<"B">> /\ r.timestamp < 3

\* the ledger after the appends of `recs`, made one at a time from the empty ledger
RECURSIVE ApplyAll(_)
ApplyAll(recs) ==
    IF recs = <<>> THEN <<>>
    ELSE RepoAppend(ApplyAll(SubSeq(recs, 1, Len(recs) - 1)), recs[Len(recs)])

(* C18: whatever the interleaving of the threads that call append, the ledger
   is what the appends made so far give when applied one at a time, in the
   order of their writes: no appended address is missing and none has two
   entries *)
C18_AppendLinearizable ==
    /\ file = ApplyAll(linearized)
    /\ \A i \in 1..Len(linearized) :
           Cardinality(EntriesFor(linearized[i].address)) = 1

\* one append was made, a second thread is inside append having read the file,
\* and a third one waits for the lock with a record for the same address
C18_Witness ==
    /\ Len(linearized) = 1
    /\ \E t, u \in Threads :
           /\ threads[t].at = "merging"
           /\ threads[u].at = "calling"
           /\ threads[t].rec.address = threads[u].rec.address
           /\ threads[t].rec.address # linearized[1].address
           /\ threads[t].rec.timestamp # threads[u].rec.timestamp

(* C19: a thread that took the trade/suppress decision on a history it read
   appends to the very ledger state it read: inside append, the lines its write
   replaces are the history its decision was taken on *)
C19_DecisionSeesStateItModifies ==
    \A t \in Threads :
        (threads[t].at = "merging" /\ threads[t].decided) =>
            read_all(threads[t].lines) = threads[t].history

\* stop() was called and has returned: the thread it joined is dead, or the
\* timeout of the join is over
StopReturned ==
    /\ calls.stop > 0
    /\ pc \in {"closing", "stopped"}
    /\ escaped # "stop_error"

(* C20: once stop() has returned, the listener appends nothing to the ledger
   and hands no event to the loop for the queue *)
C20_NothingAfterStop ==
    [][StopReturned => (file' = file /\ Len(inflight') <= Len(inflight))]_vars

\* whether the listener is paused after the calls of `tr`: the last of its
\* pause and resume calls is a pause
RECURSIVE PausedAfter(_)
PausedAfter(tr) ==
    IF tr = <<>> THEN FALSE
    ELSE IF tr[Len(tr)] = "pause" THEN TRUE
    ELSE IF tr[Len(tr)] = "resume" THEN FALSE
    ELSE PausedAfter(SubSeq(tr, 1, Len(tr) - 1))

\* the step is a call of pause() or of resume()
PauseOrResumeCall ==
    /\ Len(trace') = Len(trace) + 1
    /\ trace'[Len(trace')] \in {"pause", "resume"}

(* C21: pause() and resume() are not counted: the listener is paused exactly
   when the last of the pause() and resume() calls made so far is a pause(),
   however many of either came before it and whatever start() and stop()
   calls came in between; and a call of pause() or resume() changes neither
   _running nor the state of the listener thread *)
C21_PauseResumeIdempotent ==
    /\ [](paused = PausedAfter(trace))
    /\ [][PauseOrResumeCall =>
             (running' = running /\ lpc' = lpc /\ ltimer' = ltimer)]_vars

\* two pause() calls in a row and one resume() on a listener whose start()
\* succeeded and whose thread is alive
C21_Witness ==
    /\ trace = <<"start", "pause", "pause", "resume">>
    /\ ~paused
    /\ running
    /\ lpc \notin {"none", "dead"}

\* a put of a record for `address` is scheduled on the loop and has not run yet
InFlight(address) == \E i \in 1..Len(inflight) : inflight[i].address = address

\* a record for `address` is in the Dispatch Queue
Queued(address) == \E i \in 1..Len(queue) : queue[i].address = address

(* C22: the emit step needs nothing from the consumer: a scheduled put never
   waits for room, and every event the listener emitted is placed in the queue
   unless run() ends first, whether the consumer is waiting, in an attempt or
   in a retry delay *)
C22_EmittedEventuallyQueued ==
    \A a \in FedAddresses : InFlight(a) ~> (Queued(a) \/ pc = "stopped")

\* two events were emitted while an attempt sequence is in progress: one was
\* placed in the queue, the put of the other is scheduled
C22_Witness ==
    /\ pc \in {"executing", "sleeping"}
    /\ queue # <<>>
    /\ Len(queue) = 1
    /\ Len(inflight) = 1
    /\ queue[1].timestamp > seq.first

\* the record the driver appended and has not handed to the callback yet
BeingEmitted ==
    IF threads["writer"].at = "appended" THEN <<threads["writer"].rec>> ELSE <<>>

\* the enqueue number of a record the driver emitted
EnqNo(rec) == CHOOSE i \in 1..Len(trace) : trace[i] = rec

\* the enqueue number of the record the latest wake evaluated, 0 before any wake
LastEvaluated == IF wake = NoWake THEN 0 ELSE EnqNo(wake.chosen)

(* C23: the events not evaluated yet are exactly those enqueued after the record
   the latest wake evaluated, held in enqueue order (none lost, none kept to be
   evaluated again), and each wake evaluates a record enqueued later than the
   record of the wake before *)
C23_EnqueueOrder ==
    /\ [](queue \o inflight \o BeingEmitted
             = SubSeq(trace, LastEvaluated + 1, Len(trace)))
    /\ [][wake'.chosen # wake.chosen =>
              /\ wake'.chosen \in Range(trace)
              /\ EnqNo(wake'.chosen) > LastEvaluated]_vars

\* two events were enqueued while the first one was being processed; the wake
\* that followed the end of that sequence considered both and evaluated the later
C23_Witness ==
    /\ Len(trace) = 3
    /\ seq.outcome = "success"
    /\ seq.timestamp = trace[1].timestamp
    /\ seq.address = trace[1].address
    /\ trace[2].timestamp > seq.first
    /\ trace[3].timestamp < lastDone[seq.address]
    /\ wake.pending = <<trace[2], trace[3]>>
    /\ wake.chosen = trace[3]
    /\ wake.at >= lastDone[seq.address]

(* C24: is_recent returns False for a missing record; for a record it returns
   True when the record is max_age old or younger, a timestamp after the
   reference instant included, and False when it is older *)
C24_RecencyGuard ==
    (call.op = "is_recent" /\ result.done) =>
        IF call.rec = NoRecord THEN result.value = FALSE
        ELSE IF call.rec.timestamp > call.reference THEN result.value = TRUE
        ELSE IF call.reference - call.rec.timestamp = MaxAgeTicks THEN result.value = TRUE
        ELSE result.value = (call.reference - call.rec.timestamp < MaxAgeTicks)

\* is_recent returned True for a record exactly max_age old
C24_Witness ==
    /\ call.op = "is_recent"
    /\ result.done
    /\ call.rec # NoRecord
    /\ call.reference - call.rec.timestamp = MaxAgeTicks
    /\ result.value = TRUE

(* C25: every record built by create_record or parsed by from_line has a
   well-formed address ("0x" and 40 lowercase hexadecimal digits), and so has
   every address _normalize_address lets through *)
C25_RecordsWellFormed ==
    /\ (call.op = "normalize_address" /\ result.done /\ result.value # <<>>) =>
           WellFormed(result.value)
    /\ (call.op = "create_record" /\ result.done) =>
           WellFormed(result.value.address)
    /\ (call.op = "from_line" /\ result.done /\ result.value.timestamp # -1) =>
           WellFormed(result.value.address)

\* a trade attempt or a retry delay is in progress
Executing == pc \in {"executing", "sleeping"}

(* C26 as stated: in no reachable state is the store lock held while a Trade
   Action attempt or retry delay is in progress *)
C26_StoreLockNeverHeldDuringExecution ==
    Executing => repoLock = "free"

\* a thread is inside a store operation of its own that holds the lock: its
\* append, between the read of the file and the write
InOwnStoreOperation(t) == threads[t].at = "merging"

(* C26: the controller never holds the store lock while a Trade Action attempt
   or retry delay is in progress; during an execution the lock is free or held
   by another actor that is inside its own store operation, whose end does not
   depend on the execution: the step that releases the lock is a step of its
   holder, and no step of the controller takes the lock *)
C26_ExecutionDoesNotHoldStoreLock ==
    /\ [](Executing =>
             /\ repoLock # "controller"
             /\ \A t \in Threads : repoLock = t => InOwnStoreOperation(t))
    /\ [][(Executing /\ repoLock # "free" /\ repoLock' = "free") =>
             (pc' = pc /\ attempt' = attempt /\ threads'[repoLock] # threads[repoLock])]_vars
    /\ [][(Executing /\ repoLock = "free" /\ repoLock' # "free") =>
             (repoLock' \in Threads /\ pc' = pc /\ InOwnStoreOperation(repoLock)')]_vars

\* the listener, which had passed its pause test before the execution began,
\* stamped a record during the execution, read the history and appended, and
\* the lock is free again: the record it wrote is in the ledger
C26_Witness ==
    /\ Executing
    /\ paused
    /\ repoLock = "free"
    /\ threads["listener"].at = "appended"
    /\ threads["listener"].rec.timestamp >= seq.first
    /\ Len(linearized) >= 2
    /\ to_line(threads["listener"].rec) \in Range(file)

\* the step is a step of backup(): the call, the read or the write
BackupStep == call' # call \/ result' # result

(* C27: whenever an I/O step of backup() fails (creating the backup directory,
   reading the ledger, writing the snapshot) backup() returns "no snapshot"
   without raising; backup() never modifies the ledger *)
C27_BackupFailureNeverFatal ==
    /\ []((call.op = "backup" /\ result.done /\ call.fault # "none") =>
             (~result.value.raised /\ result.value.target = NoSnapshot))
    /\ [][BackupStep => file' = file]_vars

(* C28: any two successful backup() calls write to different snapshot
   locations, so a later backup never overwrites an earlier one *)
C28_SnapshotsUniquelyNamed ==
    \A i, j \in 1..Len(trace) : i # j => trace[i].target # trace[j].target

\* the lines of a ledger that parse: two parts and a timestamp
ParsableLine(line) == Len(line) = 2 /\ line[1] \in Nat

\* the records written on the parsable lines of a ledger, in file order
WellFormedRecords(lines) ==
    LET kept == SelectSeq(lines, ParsableLine)
    IN  [i \in 1..Len(kept) |-> [timestamp |-> kept[i][1], address |-> strip(kept[i][2])]]

(* C29: from any store state, after clear() read_all() returns the empty list
   and read_latest() returns none, and a following append(r) leaves exactly the
   single record r *)
C29_ClearEmptiesHistory ==
    /\ call.op = "clear" =>
           (read_all(file) = <<>> /\ read_latest(file) = NoRecord)
    /\ (call.op = "append" /\ call.prev = "clear") =>
           (file = <<to_line(call.rec)>> /\ read_all(file) = <<call.rec>>)
    /\ (call.op \in {"read_all", "read_latest"} /\ call.prev = "clear") =>
           result.value = (IF call.op = "read_all" THEN <<>> ELSE NoRecord)

\* clear() was called on a ledger holding a record and a malformed line
C29_Witness ==
    /\ call.op = "clear"
    /\ WellFormedRecords(call.ledger) # <<>>
    /\ Len(WellFormedRecords(call.ledger)) < Len(call.ledger)
    /\ file = <<>>

(* C30: for any ledger content mixing well-formed and malformed lines,
   read_all() returns exactly the well-formed records in file order and
   read_latest() the last well-formed one (none if there is none); neither
   modifies the ledger *)
C30_MalformedSkipped ==
    /\ call.op = "read_all" =>
           /\ result.value = WellFormedRecords(call.ledger)
           /\ file = call.ledger
    /\ call.op = "read_latest" =>
           /\ LET recs == WellFormedRecords(call.ledger)
              IN  result.value = IF recs = <<>> THEN NoRecord ELSE recs[Len(recs)]
           /\ file = call.ledger

\* read_all() returned on a ledger whose first line is malformed and whose
\* second line is a record
C30_Witness ==
    /\ call.op = "read_all"
    /\ Len(call.ledger) = 2
    /\ ~ParsableLine(call.ledger[1])
    /\ ParsableLine(call.ledger[2])
    /\ Len(result.value) = 1

(* C31: a failed scan iteration never ends the capture loop or the pipeline
   (the thread ends only at the top of the loop, for a cleared _running):
   it leaves the store as it was and emits nothing, a backoff delay of at
   least the shorter backoff is taken before the next scan, and when the delay
   is over the loop goes on with a scan if the source is still running *)
C31_SensingFailureAbsorbed ==
    /\ [][(lpc # "dead" /\ lpc' = "dead") => (lpc \in {"top", "backoff"} /\ ~running)]_vars
    /\ [][(lpc \in {"scanning", "handling"} /\ lpc' = "backoff") =>
             /\ file' = file
             /\ inflight' = inflight
             /\ queue' = queue
             /\ pc' = pc
             /\ running' = running
             /\ ltimer' >= now + ERROR_BACKOFF_TICKS]_vars
    /\ [][(lpc = "backoff" /\ lpc' # "backoff") =>
             /\ now >= ltimer
             /\ lpc' = IF running THEN "scanning" ELSE "dead"]_vars

\* the steps on which a gate rejects the record the consumer evaluates: the
\* recency test on the wake, the other two gates once read_latest has returned
RejectingWake ==
    /\ pc \in {"waiting", "ready", "reading"}
    /\ wake' # wake
    /\ wake'.gate \in {"stale", "notlatest", "debounced"}

(* C32: when a record is dropped by one of the three gates the Trade Action is
   not invoked, pause() and resume() are not called, and the Debounce Tracker
   and the Record Store are left unchanged *)
C32_RejectedEventsHaveNoEffect ==
    [][RejectingWake =>
          /\ pc' = "waiting"
          /\ seq' = seq
          /\ attempt' = attempt
          /\ calls' = calls
          /\ paused' = paused
          /\ recent' = recent
          /\ lastDone' = lastDone
          /\ file' = file]_vars

\* after an execution one record was rejected as debounced, some time after
\* the execution the tracker remembers, and another as stale
C32_Witness ==
    /\ pc = "waiting"
    /\ \E i \in 1..Len(decisions) : decisions[i].gate = "debounced"
    /\ \E i \in 1..Len(decisions) : decisions[i].gate = "stale"
    /\ wake.gate \in {"stale", "debounced"}

\* the tracker holds an execution instant for the address, younger than the
\* debounce window at `reference`
HeldAndYounger(tracker, address, reference) ==
    /\ tracker[address] # NoInstant
    /\ reference - tracker[address] < DEBOUNCE_TICKS

(* C33: should_skip is true iff the tracker holds an instant for the address
   with now - instant < window; prune(now) removes exactly the entries with
   now - instant >= window, so it changes the result of should_skip for no
   address at no time >= now; after a completed execution the tracker holds
   only entries younger than the window *)
C33_TrackerConsistency ==
    /\ (call.op = "should_skip" /\ result.done) =>
           (result.value <=> HeldAndYounger(call.tracker, call.address, call.reference))
    /\ (call.op = "prune" /\ result.done) =>
           \A a \in Addresses :
              /\ result.value[a] =
                    IF HeldAndYounger(call.tracker, a, call.reference)
                    THEN call.tracker[a] ELSE NoInstant
              /\ \A t \in call.reference..(MaxTime + DEBOUNCE_TICKS) :
                    should_skip(result.value, create_record(a, 0), t)
                        <=> should_skip(call.tracker, create_record(a, 0), t)
    /\ (call.op = "record_execution" /\ result.done) =>
           /\ result.value[call.address] = call.reference
           /\ \A a \in Addresses :
                 result.value[a] # NoInstant =>
                     HeldAndYounger(result.value, a, call.reference)

\* prune was called on a tracker holding an entry exactly one window old, an
\* older one and a younger one
C33_Witness ==
    /\ call.op = "prune"
    /\ result.done
    /\ call.tracker[<<"A">>] # NoInstant /\ call.reference - call.tracker[<<"A">>] = DEBOUNCE_TICKS
    /\ call.tracker[<<"B">>] # NoInstant /\ call.reference - call.tracker[<<"B">>] > DEBOUNCE_TICKS
    /\ call.tracker[<<"C">>] # NoInstant /\ call.reference - call.tracker[<<"C">>] < DEBOUNCE_TICKS
    /\ result.value = [call.tracker EXCEPT ![<<"A">>] = NoInstant, ![<<"B">>] = NoInstant]

(* C34: the retry loop stops at the first success and waits only between
   attempts: a sequence whose attempt k succeeded made exactly k calls and took
   k-1 delays; a sequence whose attempts all failed made N calls and took N-1
   delays; while a sequence runs the delays taken are one less than the calls
   made during an attempt and as many during a delay, which is never taken
   after attempt N; a sequence never makes more than N calls *)
C34_RetryStopsAtFirstSuccess ==
    /\ seq.calls <= RETRY_ATTEMPTS
    /\ seq.outcome = "success" => (seq.calls = attempt /\ seq.delays = seq.calls - 1)
    /\ seq.outcome = "exhausted" =>
           (seq.calls = RETRY_ATTEMPTS /\ seq.delays = RETRY_ATTEMPTS - 1)
    /\ pc = "executing" => (seq.calls = attempt /\ seq.delays = seq.calls - 1)
    /\ pc = "sleeping" => (seq.calls = attempt /\ seq.delays = seq.calls
                           /\ seq.calls < RETRY_ATTEMPTS)

\* the second attempt of a sequence succeeded, after one delay
C34_Witness ==
    /\ seq.outcome = "success"
    /\ seq.calls = 2
    /\ seq.delays = 1
    /\ pc = "waiting"

\* the verdict of the last evaluation is the first gate, in the order recency,
\* latest, debounce, that the record failed, and "passed" if it failed none
GatesInOrder ==
    LET fresh   == is_recent(wake.chosen, wake.checked)
        isLast  == ~NotLatest(wake.latest, wake.chosen)
        skipped == wake.lastDone # NoInstant /\ wake.at - wake.lastDone < DEBOUNCE_TICKS
    IN  /\ wake.gate = "stale" => ~fresh
        /\ wake.gate = "notlatest" => (fresh /\ ~isLast)
        /\ wake.gate = "debounced" => (fresh /\ isLast /\ skipped)
        /\ wake.gate = "passed" => (fresh /\ isLast /\ ~skipped)

(* C35: the Trade Action is invoked only while the controller processes a
   record that passed the recency, latest and debounce gates in that order;
   once run() has finished no event is dequeued or evaluated and the Trade
   Action is not invoked again, whatever the Capture Source still emits *)
C35_StoppedIsTerminal ==
    /\ [](wake.gate \in {"stale", "notlatest", "debounced", "passed"} => GatesInOrder)
    /\ [](pc \in {"executing", "sleeping"} =>
             /\ wake.gate = "passed"
             /\ wake.chosen = record
             /\ seq.address = record.address /\ seq.timestamp = record.timestamp)
    /\ [][seq'.calls # seq.calls =>
             (pc \in {"pausing", "sleeping"} /\ pc' = "executing" /\ wake'.gate = "passed")]_vars
    /\ [][pc = "stopped" =>
             /\ pc' = "stopped"
             /\ Len(queue') >= Len(queue)
             /\ SubSeq(queue', 1, Len(queue)) = queue
             /\ wake' = wake
             /\ decisions' = decisions
             /\ seq' = seq
             /\ record' = record]_vars

\* run() has finished, and a record captured afterwards is in the ledger and
\* in the queue
C35_Witness ==
    /\ pc = "stopped"
    /\ \E i \in 1..Len(queue) :
          /\ queue[i].timestamp > calls.endAt
          /\ queue[i] = read_latest(file)

(* C36: when the controller is cancelled during a Trade Action attempt or an
   inter-retry delay, the Capture Source has been resumed and then stopped, the
   Trade Action has been closed, no further attempt is made, and the Debounce
   Tracker has not been updated for that address *)
C36_CancelledDuringExecution ==
    seq.outcome = "cancelled" =>
        /\ pc \in {"finishing", "joining", "closing", "stopped"}
        /\ calls.resume = calls.pause
        /\ ~paused
        /\ pc \in {"joining", "closing", "stopped"} => calls.stop = 1
        /\ pc = "stopped" => calls.close = 1
        /\ seq.calls = attempt
        /\ recent[seq.address] = NoInstant \/ recent[seq.address] < seq.first

\* the store holds a record of rec's address that is not older than rec
Persisted(rec, lines) ==
    \E i \in 1..Len(lines) :
        /\ from_line(lines[i]).address = rec.address
        /\ from_line(lines[i]).timestamp >= rec.timestamp

(* C37: every captured record is appended to the store before it is pushed to
   the queue: a record is the store's latest at the moment it is emitted, every
   record on its way to the queue or in it is in the store (under its own or a
   later timestamp) and not newer than the store's latest record, and the record
   the controller dequeues was persisted before *)
C37_PersistBeforeEmit ==
    /\ [][Len(inflight') > Len(inflight) =>
             read_latest(file') = inflight'[Len(inflight')]]_vars
    /\ [](\A i \in 1..Len(inflight \o queue) :
             /\ Persisted((inflight \o queue)[i], file)
             /\ read_latest(file).timestamp >= (inflight \o queue)[i].timestamp)
    /\ [](wake.gate \in {"notlatest", "debounced", "passed"} =>
             /\ wake.latest # NoRecord
             /\ wake.latest.timestamp >= wake.chosen.timestamp)

\* the number of the last capture of `address` among the first n, 0 if none
LastCapture(address, n) ==
    MaxOf({0} \cup {i \in 1..n : trace[i].address = address})

\* the addresses captured more recently than `address` among the first n
NewerThan(address, n) ==
    {b \in CaptureAddresses : LastCapture(b, n) > LastCapture(address, n)}

\* capture number i is to be emitted: its address was not captured before, or
\* at least three addresses were captured more recently
ToBeEmitted(i) ==
    \/ LastCapture(trace[i].address, i - 1) = 0
    \/ Cardinality(NewerThan(trace[i].address, i - 1)) >= 3

\* the captures to be emitted, in order
RECURSIVE EmittedUpTo(_)
EmittedUpTo(n) ==
    IF n = 0 THEN <<>>
    ELSE IF ToBeEmitted(n) THEN Append(EmittedUpTo(n - 1), trace[n])
         ELSE EmittedUpTo(n - 1)

\* the captures whose record has been appended, and those whose handling is over
CapturesAppended ==
    IF threads["listener"].at = "calling" THEN Len(trace) - 1 ELSE Len(trace)
CapturesHandled ==
    IF threads["listener"].at = "idle" THEN Len(trace) ELSE Len(trace) - 1

(* C38: every captured record is appended to the store, which then holds the
   address with the capture's timestamp until a later capture of it; a record
   is emitted iff its address is absent from the history or not among its
   three most recent entries; hence between a capture of an address and its
   next emission at least three other addresses were captured *)
C38_CaptureRepetitionControl ==
    /\ \A a \in CaptureAddresses :
          LastCapture(a, CapturesAppended) # 0 =>
              to_line(trace[LastCapture(a, CapturesAppended)]) \in Range(file)
    /\ Len(file) = Cardinality({trace[i].address : i \in 1..CapturesAppended})
    /\ inflight = EmittedUpTo(CapturesHandled)
    /\ \A i, j \in 1..Len(trace) :
          (i < j /\ trace[i].address = trace[j].address /\ trace[j] \in Range(inflight)) =>
              Cardinality({trace[k].address : k \in (i + 1)..(j - 1)}
                              \ {trace[i].address}) >= 3

\* read_latest has just returned, to the evaluation of an event, a record of
\* the event's address
EvaluatesLatestAddress ==
    /\ pc = "reading" /\ pc' # "reading"
    /\ wake'.latest # NoRecord
    /\ wake'.latest.address = wake'.chosen.address

(* C39: an emitted event for an address after which no other address was
   captured is acted on when it is evaluated fresh and not debounced: a later
   re-capture of the same address, which refreshes its timestamp in the store
   and is not emitted, does not make the pending event be dropped *)
C39_RecaptureKeepsPendingEvent ==
    [][EvaluatesLatestAddress => wake'.gate # "notlatest"]_vars

(* C40: every attempt ending, a wake makes at most RETRY_ATTEMPTS attempts and
   RETRY_ATTEMPTS - 1 delays and the controller comes back to waiting on the
   queue; so every event placed in the queue while run() runs is taken out of
   it, evaluated or coalesced away, unless run() ends first *)
C40_EventProcessingTerminates ==
    /\ [](/\ attempt <= RETRY_ATTEMPTS
          /\ seq.calls <= RETRY_ATTEMPTS /\ seq.delays <= RETRY_ATTEMPTS - 1)
    /\ (pc \in {"executing", "sleeping"}) ~> (pc \in {"waiting", "ready", "stopped"})
    /\ \A i \in 1..MaxLiveFeeds :
          (Len(trace) >= i /\ trace[i] \in Range(queue))
              ~> ((Len(trace) >= i /\ trace[i] \notin Range(queue)) \/ pc = "stopped")

\* an event placed in the queue during an attempt sequence that took every
\* attempt and every delay was dequeued and evaluated once the sequence was over
C40_Witness ==
    /\ pc # "stopped" /\ queue = <<>>
    /\ Len(decisions) = 2 /\ Len(trace) >= 2
    /\ decisions[1].gate = "passed"
    /\ decisions[2].at >= decisions[1].at + (RETRY_ATTEMPTS - 1) * RetryDelayTicks
    /\ wake.chosen = trace[2]
    /\ trace[2].timestamp < wake.at

====
